---- MODULE Spec2Model ----
(***************************************************************************)
(* Threshold-combination analysis engine: the variant generators, the      *)
(* enumerator and the two evaluators (analysis_engine.py,                  *)
(* filter_manager.py), the configuration step and the analyse handler      *)
(* (app.py), and the history cache (history_manager.py).                   *)
(*                                                                         *)
(* Numbers.  Column values are integers.  A threshold value is an exact    *)
(* rational <<n, d>> with d > 0 (a mean, a range boundary                  *)
(* min + i * (max - min) / N); a comparison of a value with a threshold    *)
(* is cross-multiplied.  A timestamp is a count of ticks, TicksPerDay      *)
(* ticks to the day; a calendar date is a day number.                      *)
(***************************************************************************)
EXTENDS Integers, Sequences, FiniteSets, TLC

\* ---------------------------------------------------------------- bounds
MaxRows == 2        \* rows of a snapshot
MaxVal == 2         \* numeric values are 0..MaxVal
MaxDiv == 3         \* range divisions are 2..MaxDiv
MaxMin == 2         \* min_matching_rows is 0..MaxMin
MaxDay == 1         \* days are 0..MaxDay
TicksPerDay == 2    \* timestamps per day
RangeTop == 6       \* the values of the snapshots of the range runs are 0..RangeTop
MaxClicks == 2      \* clicks on the button in the history runs
Datasets == 1       \* dataset ids are 1..Datasets in the history runs
BigDivisions == 101 \* divisions of the large range configuration
BigDates == 100     \* dates of the large "on" configuration
MaxEval == 6        \* condition sets followed in a run over the large configurations
MaxCount == 9       \* selected_columns_count is 0..MaxCount
MaxKnown == 2       \* entries of current_column_ranges
BigCount == 101     \* a large variant count of another column
MaxFail == 3        \* the failing queries are among the first MaxFail
MaxConds == 2       \* conditions of an OR configuration
CountX == 5         \* rows of value x in the column {x:5, y:3}
CountY == 3         \* rows of value y in it
MaxExtra == 1       \* rows beyond SampleLimit in the long table

\* ------------------------------------------------------------- snapshot
Null == 0 - 1       \* NaN / NULL / NaT of a column value

Columns == <<"A", "B", "D">>
Cats == {"x", "y"}
NoCat == "_"        \* the categorical value of a row whose column is not used

\* is_date_column / is_numeric_dtype of the snapshot's column, and the
\* column_types the handler derives from them.
ColumnType(col) ==
    IF col = "D" THEN "date" ELSE IF col = "A" THEN "numeric" ELSE "categorical"

Range(s) == {s[i] : i \in DOMAIN s}

\* the identifiers a result row lists at most ("LIMIT 20", ids[:20])
SampleLimit == 20
\* the rows of d in their own order
RowOrder(d) == [i \in DOMAIN d |-> i]

RECURSIVE SeqSum(_)
SeqSum(s) == IF s = <<>> THEN 0 ELSE Head(s) + SeqSum(Tail(s))

RECURSIVE SelectSeq2(_, _)
\* the subsequence of s of the elements in set S, order kept
SelectSeq2(s, S) ==
    IF s = <<>> THEN <<>>
    ELSE IF Head(s) \in S THEN <<Head(s)>> \o SelectSeq2(Tail(s), S)
         ELSE SelectSeq2(Tail(s), S)

SetMin(S) == CHOOSE x \in S : \A y \in S : x <= y
SetMax(S) == CHOOSE x \in S : \A y \in S : y <= x

\* df[col].dropna() as the set / the sequence of its values
NullOf(col) == IF ColumnType(col) = "categorical" THEN "" ELSE Null
ColValues(df, col) == {df[i][col] : i \in DOMAIN df} \ {NullOf(col)}
ColSeq(df, col) == [i \in DOMAIN df |-> df[i][col]]

\* ------------------------------------------------------------- rationals
Rat(n, d) == <<n, d>>
RatInt(v) == <<v, 1>>
\* v `op` q for an integer v and a rational q; a NULL compares false
Compare(v, op, q) ==
    IF v = Null THEN FALSE
    ELSE CASE op = ">"  -> v * q[2] >  q[1]
           [] op = "<"  -> v * q[2] <  q[1]
           [] op = ">=" -> v * q[2] >= q[1]
           [] op = "<=" -> v * q[2] <= q[1]
           [] op = "="  -> v * q[2] =  q[1]
           [] OTHER     -> FALSE

DateOf(ts) == ts \div TicksPerDay

\* ------------------------------------------- threshold configuration (app.py)
\* A threshold configuration is a record with a "type" field, as the dict the
\* configuration step stores in thresholds[col].

\* Mean: {"type": "mean", "value": col_data.mean()}
MeanConfig(df, col) ==
    LET vals == SelectSeq2(ColSeq(df, col), ColValues(df, col))
    IN  [type |-> "mean", value |-> Rat(SeqSum(vals), Len(vals))]

\* s in ascending order
RECURSIVE SortedSeq(_)
SortedSeq(s) ==
    IF s = <<>> THEN <<>>
    ELSE LET i == CHOOSE i \in DOMAIN s : \A j \in DOMAIN s : s[i] <= s[j]
         IN  <<s[i]>> \o SortedSeq(SubSeq(s, 1, i - 1) \o SubSeq(s, i + 1, Len(s)))

\* Median: {"type": "median", "value": col_data.median()}, the middle value
\* of the non-null values or the mean of the two middle ones
MedianConfig(df, col) ==
    LET vals == SortedSeq(SelectSeq2(ColSeq(df, col), ColValues(df, col)))
        n == Len(vals)
    IN  [type |-> "median",
         value |-> IF n % 2 = 1 THEN RatInt(vals[(n + 1) \div 2])
                   ELSE Rat(vals[n \div 2] + vals[n \div 2 + 1], 2)]

\* Custom: {"type": "custom", "value": threshold_value}
CustomConfig(v) == [type |-> "custom", value |-> RatInt(v)]

\* Range: num_divisions ranges over [min_val, max_val]; range_size is
\* (max_val - min_val) / num_divisions, the last range ends at max_val.
RangeDivisions(min_val, max_val, num_divisions) ==
    [i \in 1..num_divisions |->
        LET start == Rat(num_divisions * min_val + (i - 1) * (max_val - min_val),
                         num_divisions)
            end == IF i = num_divisions
                   THEN RatInt(max_val)
                   ELSE Rat(num_divisions * min_val + i * (max_val - min_val),
                            num_divisions)
        IN  <<start, end>>]

RangeConfig(df, col, num_divisions) ==
    [type |-> "range",
     ranges |-> RangeDivisions(SetMin(ColValues(df, col)),
                               SetMax(ColValues(df, col)), num_divisions)]

\* Multiple Conditions (OR Logic): operator_map gives the four symbols
Operators == <<">", "<", ">=", "<=">>
OrConfig(conditions) == [type |-> "multiple_conditions_or", conditions |-> conditions]
Condition(op, v) == [operator |-> op, value |-> RatInt(v)]

\* the kinds the evaluators name but the configuration step never builds
MultipleConfig(kind, values) == [type |-> kind, values |-> values]

\* Categorical: value_groups; selected values one by one, then all together
\* when more than one is selected ("Select Specific Values"); each distinct
\* value alone ("Select All Values" / "Select Top N Values").
SpecificValuesConfig(selected_values) ==
    [type |-> "categorical",
     value_groups |->
        [i \in 1..Len(selected_values) |-> <<selected_values[i]>>]
        \o (IF Len(selected_values) > 1 THEN <<selected_values>> ELSE <<>>)]

RECURSIVE Unique(_)
\* col_data.unique(): the distinct values in order of first appearance
Unique(s) ==
    IF s = <<>> THEN <<>>
    ELSE LET pre == Unique(SubSeq(s, 1, Len(s) - 1))
             x == s[Len(s)]
         IN  IF x \in Range(pre) THEN pre ELSE Append(pre, x)

\* all the values together as one more group
AllValuesConfig_Combined(df, col) ==
    LET unique_values == Unique(ColSeq(df, col))
    IN  [type |-> "categorical",
         value_groups |-> [i \in 1..Len(unique_values) |-> <<unique_values[i]>>]
                          \o <<unique_values>>]

AllValuesConfig(df, col) ==
    LET unique_values == Unique(ColSeq(df, col))
    IN  [type |-> "categorical",
         value_groups |-> [i \in 1..Len(unique_values) |-> <<unique_values[i]>>]]

\* col_data.value_counts(): the distinct values by falling frequency; the
\* order of values of equal frequency is not fixed, so all such orders
ValueCount(df, col, v) == Cardinality({i \in DOMAIN df : df[i][col] = v})
value_counts(df, col) ==
    LET vals == ColValues(df, col)
        n == Cardinality(vals)
    IN  {s \in [1..n -> vals] :
            /\ \A i, j \in 1..n : i # j => s[i] # s[j]
            /\ \A i, j \in 1..n :
                i < j => ValueCount(df, col, s[i]) >= ValueCount(df, col, s[j])}

\* Select Top N Values: top_values = value_counts.head(top_n).index.tolist(),
\* each as a group of its own
TopNConfig(counts, top_n) ==
    LET top_values == SubSeq(counts, 1, top_n)
    IN  [type |-> "categorical",
         value_groups |-> [i \in 1..Len(top_values) |-> <<top_values[i]>>]]

\* Dates: date_input gives calendar dates (day numbers); the cut-off of
\* Last/First N Days is the Timestamp max_date - n_days / min_date + n_days.
SingleRangeConfig(start_date, end_date) ==
    [type |-> "single_range", start_date |-> start_date, end_date |-> end_date]
MultipleRangesConfig(ranges) == [type |-> "multiple_ranges", ranges |-> ranges]
DateRange(start_date, end_date) == [start_date |-> start_date, end_date |-> end_date]
MultipleDatesConfig(kind, dates) == [type |-> kind, dates |-> dates]
LastNDaysConfig(df, col, days) ==
    [type |-> "multiple_last_n_days",
     configs |-> [i \in 1..Len(days) |->
        [days |-> days[i],
         cutoff_date |-> SetMax(ColValues(df, col)) - days[i] * TicksPerDay]]]
FirstNDaysConfig(df, col, days) ==
    [type |-> "multiple_first_n_days",
     configs |-> [i \in 1..Len(days) |->
        [days |-> days[i],
         cutoff_date |-> SetMin(ColValues(df, col)) + days[i] * TicksPerDay]]]

\* a configuration whose kind no branch of the evaluators names
UnknownConfig == [type |-> "percentile"]

\* --------------------------------------- query conditions (filter_manager.py)
\* One SQL condition string, kept as its structure:
\*   [sql |-> "cmp" | "and" | "or", column, parts]   "A" >= 1 AND "A" < 2
\*   [sql |-> "in", column, values]                    "B" IN ('x', 'y')
\*   [sql |-> "date_between", column, start, end]      "D"::date BETWEEN .. AND ..
\*   [sql |-> "date_cmp", column, op, literal]         "D"::date < '..'
Part(op, value) == [op |-> op, value |-> value]
SqlCmp(column, op, value) == [sql |-> "cmp", column |-> column, parts |-> <<Part(op, value)>>]

\* f"{x}" of a date is 'YYYY-MM-DD', of a Timestamp 'YYYY-MM-DD HH:MM:SS'
DateText(date) == <<date>>
TimestampText(ts) == <<DateOf(ts), ts % TicksPerDay>>
\* PostgreSQL's date input of such a literal keeps the date fields only
PgDate(text) == text[1]

Raise == [raised |-> TRUE, conditions |-> <<>>]
Return(conditions) == [raised |-> FALSE, conditions |-> conditions]

generate_sql_condition_date(column, threshold_config) ==
    LET type == threshold_config.type
        between(r) == [sql |-> "date_between", column |-> column,
                       start |-> DateText(r.start_date), end |-> DateText(r.end_date)]
        cmp(op, text) == [sql |-> "date_cmp", column |-> column, op |-> op,
                          literal |-> text]
    IN  CASE type = "single_range" -> Return(<<between(threshold_config)>>)
          [] type = "multiple_ranges" ->
                Return([i \in DOMAIN threshold_config.ranges |->
                            between(threshold_config.ranges[i])])
          [] type = "multiple_before" ->
                Return([i \in DOMAIN threshold_config.dates |->
                            cmp("<", DateText(threshold_config.dates[i]))])
          [] type = "multiple_after" ->
                Return([i \in DOMAIN threshold_config.dates |->
                            cmp(">", DateText(threshold_config.dates[i]))])
          [] type = "multiple_on" ->
                Return([i \in DOMAIN threshold_config.dates |->
                            cmp("=", DateText(threshold_config.dates[i]))])
          [] type = "multiple_last_n_days" ->
                Return([i \in DOMAIN threshold_config.configs |->
                            cmp(">=", TimestampText(threshold_config.configs[i].cutoff_date))])
          [] type = "multiple_first_n_days" ->
                Return([i \in DOMAIN threshold_config.configs |->
                            cmp("<=", TimestampText(threshold_config.configs[i].cutoff_date))])
          [] OTHER -> Return(<<>>)

\* every range taken as open at its end
SqlRangeUpper_Open(i, total_ranges) == "<"

\* "if i == len(ranges)": the last range includes its end
SqlRangeUpper(i, total_ranges) == IF i = total_ranges THEN "<=" ELSE "<"

\* the second condition including the value
SqlBelow_Inclusive(column, value) == SqlCmp(column, "<=", value)

\* conditions.append(f"\"{column}\" < {value}")
SqlBelow(column, value) == SqlCmp(column, "<", value)

\* the conditions of the group joined by AND
SqlOrGroup_And(column, or_parts) == [sql |-> "and", column |-> column, parts |-> or_parts]

\* f"({' OR '.join(or_conditions)})"
SqlOrGroup(column, or_parts) == [sql |-> "or", column |-> column, parts |-> or_parts]

generate_sql_condition_numeric(column, threshold_config) ==
    LET type == threshold_config.type
    IN  CASE type = "range" ->
                LET ranges == threshold_config.ranges
                IN  Return([i \in DOMAIN ranges |->
                        [sql |-> "and", column |-> column,
                         parts |-> <<Part(">=", ranges[i][1]),
                                     Part(SqlRangeUpper(i, Len(ranges)), ranges[i][2])>>]])
          [] type = "multiple_conditions_or" ->
                LET conditions == threshold_config.conditions
                    or_parts == [i \in DOMAIN conditions |->
                                    Part(conditions[i].operator, conditions[i].value)]
                IN  Return([i \in DOMAIN conditions |->
                                SqlCmp(column, conditions[i].operator, conditions[i].value)]
                           \o <<SqlOrGroup(column, or_parts)>>)
          [] OTHER ->   \* mean, median, custom
                IF "value" \notin DOMAIN threshold_config
                THEN Raise   \* KeyError: 'value'
                ELSE Return(<<SqlCmp(column, ">=", threshold_config.value),
                              SqlBelow(column, threshold_config.value)>>)

generate_sql_condition_categorical(column, threshold_config) ==
    IF threshold_config.type = "categorical"
       /\ "value_groups" \in DOMAIN threshold_config
       /\ threshold_config.value_groups # <<>>
    THEN LET groups == SelectSeq(threshold_config.value_groups, LAMBDA g : g # <<>>)
         IN  Return([i \in DOMAIN groups |->
                        [sql |-> "in", column |-> column, values |-> groups[i]]])
    ELSE Return(<<>>)

generate_sql_condition(column, threshold_config, column_type) ==
    CASE column_type = "date" -> generate_sql_condition_date(column, threshold_config)
      [] column_type = "numeric" -> generate_sql_condition_numeric(column, threshold_config)
      [] column_type = "categorical" ->
            generate_sql_condition_categorical(column, threshold_config)
      [] OTHER -> Return(<<>>)

\* The store's evaluation of one condition on one row (PostgreSQL: a
\* comparison with NULL is not true).
SqlHolds(cond, row) ==
    LET v == row[cond.column]
    IN  CASE cond.sql = "cmp" -> Compare(v, cond.parts[1].op, cond.parts[1].value)
          [] cond.sql = "and" ->
                \A i \in DOMAIN cond.parts : Compare(v, cond.parts[i].op, cond.parts[i].value)
          [] cond.sql = "or" ->
                \E i \in DOMAIN cond.parts : Compare(v, cond.parts[i].op, cond.parts[i].value)
          [] cond.sql = "in" -> v \in Range(cond.values)
          [] cond.sql = "date_between" ->
                /\ v # Null
                /\ DateOf(v) >= PgDate(cond.start)
                /\ DateOf(v) <= PgDate(cond.end)
          [] cond.sql = "date_cmp" ->
                /\ v # Null
                /\ Compare(DateOf(v), cond.op, RatInt(PgDate(cond.literal)))
          [] OTHER -> FALSE

\* WHERE (c1) AND (c2) ...; "1=1" when there is no clause
WhereHolds(where_clauses, row) ==
    \A i \in DOMAIN where_clauses : SqlHolds(where_clauses[i], row)

\* ------------------------------------------------------------ descriptions
\* A description is the sequence of the words of the label; "" is <<>>.
Blank == <<>>

\* the text of a condition's operand(s) inside the SQL string
PartsText(parts) == [i \in DOMAIN parts |-> <<parts[i].op, ToString(parts[i].value)>>]

\* generate_condition_description reads the SQL string back: the tests are
\* substring tests ('<' is in '<=', '>' is in '>='), taken in the source's order.
generate_condition_description(column, sql_condition, threshold_config, col_type) ==
    LET sql == sql_condition.sql
        has(sym) ==     \* sym in sql_condition, for a comparison symbol
            LET ops == IF sql = "date_cmp" THEN {sql_condition.op}
                       ELSE IF sql \in {"cmp", "and", "or"}
                            THEN {sql_condition.parts[i].op : i \in DOMAIN sql_condition.parts}
                            ELSE {}
            IN  CASE sym = ">=" -> ">=" \in ops
                  [] sym = "<"  -> ops \cap {"<", "<="} # {}
                  [] sym = ">"  -> ops \cap {">", ">="} # {}
                  [] sym = "="  -> ops \cap {"=", ">=", "<="} # {}
                  [] OTHER -> FALSE
        fallback == <<"sql", ToString(sql_condition)>>
    IN  CASE col_type = "date" ->
                IF sql = "date_between"
                THEN <<column, ":", ToString(sql_condition.start), "to",
                       ToString(sql_condition.end)>>
                ELSE IF sql = "date_cmp" /\ has("<")
                THEN <<column, "before", ToString(sql_condition.literal)>>
                ELSE IF sql = "date_cmp" /\ has(">")
                THEN <<column, "after", ToString(sql_condition.literal)>>
                ELSE IF sql = "date_cmp" /\ has("=")
                THEN <<column, "on", ToString(sql_condition.literal)>>
                ELSE fallback
          [] col_type = "numeric" ->
                IF sql = "or"
                THEN <<column, ":", ToString(PartsText(sql_condition.parts))>>
                ELSE IF has(">=") /\ has("<")
                THEN <<column, ":", ToString(PartsText(sql_condition.parts))>>
                ELSE IF has(">=")
                THEN <<column, ">=", ToString(sql_condition.parts[1].value)>>
                ELSE IF has("<")
                THEN <<column, "<",     \* of '<= v' the text after '<' is '= v'
                       IF sql_condition.parts[1].op = "<=" THEN "=" ELSE "",
                       ToString(sql_condition.parts[1].value)>>
                ELSE IF has(">")
                THEN <<column, ">", ToString(sql_condition.parts[1].value)>>
                ELSE fallback
          [] col_type = "categorical" ->
                IF sql = "in"
                THEN <<column, "in", ToString(sql_condition.values)>>
                ELSE fallback
          [] OTHER -> fallback

\* f"{x:.2f}": the value in hundredths, rounded to the nearest
Fmt2(q) == ToString((200 * q[1] + q[2]) \div (2 * q[2]))
\* strftime('%Y-%m-%d') of pd.to_datetime(x): the date fields
FmtDate(day) == ToString(day)

generate_date_condition_description(column, threshold_data, operator) ==
    CASE operator \in {"single_range", "range"} ->
            <<column, ":", FmtDate(threshold_data.start_date), "to",
              FmtDate(threshold_data.end_date)>>
      [] operator \in {"before", "after", "on"} ->
            <<column, operator, FmtDate(threshold_data)>>
      [] operator = "last_n_days" ->
            <<column, "last", ToString(threshold_data.days), "days (from",
              FmtDate(DateOf(threshold_data.cutoff_date))>>
      [] operator = "first_n_days" ->
            <<column, "first", ToString(threshold_data.days), "days (until",
              FmtDate(DateOf(threshold_data.cutoff_date))>>
      [] OTHER -> <<column, ":", "unknown date filter">>

\* ---------------------------------- tabular variants (analysis_engine.py)
\* A condition item is the tuple (col, threshold_data, operator), or, for the
\* OR group, the list of such tuples: [list |-> <<item, ...>>].
Item(col, data, operator) == [col |-> col, data |-> data, operator |-> operator]
IsList(item) == "list" \in DOMAIN item

NotAppended == [raised |-> FALSE, appended |-> FALSE, variations |-> <<>>]
Appended(items) == [raised |-> FALSE, appended |-> TRUE, variations |-> items]
Raised == [raised |-> TRUE, appended |-> FALSE, variations |-> <<>>]

\* what the loop over column_combo appends to condition_variations for col
tab_condition_variations(col, threshold_config) ==
    LET type == threshold_config.type
        each(seq, operator) == [i \in DOMAIN seq |-> Item(col, seq[i], operator)]
    IN  IF ColumnType(col) = "date"
        THEN CASE type = "single_range" ->
                    Appended(<<Item(col, threshold_config, "single_range")>>)
               [] type = "multiple_ranges" -> Appended(each(threshold_config.ranges, "range"))
               [] type = "multiple_before" -> Appended(each(threshold_config.dates, "before"))
               [] type = "multiple_after" -> Appended(each(threshold_config.dates, "after"))
               [] type = "multiple_on" -> Appended(each(threshold_config.dates, "on"))
               [] type = "multiple_last_n_days" ->
                    Appended(each(threshold_config.configs, "last_n_days"))
               [] type = "multiple_first_n_days" ->
                    Appended(each(threshold_config.configs, "first_n_days"))
               [] OTHER -> NotAppended
        ELSE IF ColumnType(col) = "numeric"
        THEN CASE type = "range" ->
                    LET ranges == threshold_config.ranges
                    IN  Appended([i \in DOMAIN ranges |->
                            Item(col, [start |-> ranges[i][1], end |-> ranges[i][2],
                                       range_id |-> i, total_ranges |-> Len(ranges)],
                                 "range")])
               [] type = "multiple_greater_than" -> Appended(each(threshold_config.values, ">"))
               [] type = "multiple_less_than" -> Appended(each(threshold_config.values, "<"))
               [] type = "multiple_conditions_or" ->
                    LET conditions == threshold_config.conditions
                        individual == [i \in DOMAIN conditions |->
                            Item(col, conditions[i].value, conditions[i].operator)]
                    IN  Appended(individual \o <<[list |-> individual]>>)
               [] OTHER ->      \* mean, median, custom
                    IF "value" \notin DOMAIN threshold_config
                    THEN Raised     \* KeyError: 'value'
                    ELSE Appended(<<Item(col, threshold_config.value, ">="),
                                    Item(col, threshold_config.value, "<")>>)
        ELSE IF type = "categorical"
             THEN IF "value_groups" \notin DOMAIN threshold_config
                  THEN Raised       \* KeyError: 'value_groups'
                  ELSE IF threshold_config.value_groups # <<>>
                  THEN Appended(each(SelectSeq(threshold_config.value_groups,
                                               LAMBDA g : g # <<>>), "include"))
                  ELSE NotAppended
             ELSE NotAppended

\* "if range_id == total_ranges": the last range includes its end
TabRangeUpper(range_id, total_ranges) == IF range_id = total_ranges THEN "<=" ELSE "<"

\* The row mask of one tuple item: TRUE where the row is kept.  An operator
\* no branch names filters nothing.
ItemKeeps(item, row) ==
    LET v == row[item.col]
        data == item.data
        operator == item.operator
    IN  IF ColumnType(item.col) = "date"
        THEN CASE operator \in {"single_range", "range"} ->
                    v # Null /\ DateOf(v) >= data.start_date /\ DateOf(v) <= data.end_date
               [] operator = "before" -> v # Null /\ DateOf(v) < data
               [] operator = "after" -> v # Null /\ DateOf(v) > data
               [] operator = "on" -> v # Null /\ DateOf(v) = data
               [] operator = "last_n_days" -> v # Null /\ v >= data.cutoff_date
               [] operator = "first_n_days" -> v # Null /\ v <= data.cutoff_date
               [] OTHER -> TRUE
        ELSE IF ColumnType(item.col) = "numeric"
        THEN CASE operator = "range" ->
                    /\ Compare(v, ">=", data.start)
                    /\ Compare(v, TabRangeUpper(data.range_id, data.total_ranges), data.end)
               [] operator \in {">=", "<", ">"} -> Compare(v, operator, data)
               [] OTHER -> TRUE
        ELSE IF operator = "include" THEN v \in Range(data) ELSE TRUE

\* the description the same branch stores in applied_conditions[col];
\* Blank where no branch stores one
ItemDescription(item) ==
    LET col == item.col
        data == item.data
        operator == item.operator
    IN  IF ColumnType(col) = "date"
        THEN IF operator \in {"single_range", "range", "before", "after", "on",
                              "last_n_days", "first_n_days"}
             THEN generate_date_condition_description(col, data, operator)
             ELSE Blank
        ELSE IF ColumnType(col) = "numeric"
        THEN CASE operator = "range" ->
                    <<col, ":", "[", Fmt2(data.start), "to", Fmt2(data.end),
                      IF data.range_id = data.total_ranges THEN "]" ELSE ")">>
               [] operator \in {">=", "<", ">"} -> <<col, operator, Fmt2(data)>>
               [] OTHER -> Blank
        ELSE IF operator = "include"
             THEN IF Len(data) = 1 THEN <<col, "=", data[1]>>
                  ELSE <<col, "in", ToString(data)>>
             ELSE Blank

\* the OR group's mask and description (numeric columns only)
ListKeeps(item, row) ==
    IF ColumnType(item.list[1].col) = "numeric"
    THEN \E i \in DOMAIN item.list :
            /\ item.list[i].operator \in {">", "<", ">=", "<="}
            /\ Compare(row[item.list[i].col], item.list[i].operator, item.list[i].data)
    ELSE TRUE

ListDescription(item) ==
    <<"(", ToString([i \in DOMAIN item.list |->
                        <<item.list[i].col, item.list[i].operator, Fmt2(item.list[i].data)>>]),
      ")">>

\* ------------------------------------------------------------- enumerator
RECURSIVE combinations(_, _)
\* itertools.combinations(s, r): the r-length subsequences of s, in
\* lexicographic order of their positions
combinations(s, r) ==
    IF r = 0 THEN << <<>> >>
    ELSE IF Len(s) < r THEN <<>>
    ELSE LET with == combinations(Tail(s), r - 1)
         IN  [i \in DOMAIN with |-> <<Head(s)>> \o with[i]]
             \o combinations(Tail(s), r)

RECURSIVE ColumnCombosFrom(_, _)
ColumnCombosFrom(selected, combo_length) ==
    IF combo_length > Len(selected) THEN <<>>
    ELSE combinations(selected, combo_length)
         \o ColumnCombosFrom(selected, combo_length + 1)

\* for combo_length in range(1, len(selected_columns) + 1):
\*     for column_combo in combinations(selected_columns, combo_length):
ColumnCombos(selected) == ColumnCombosFrom(selected, 1)

RECURSIVE ProductSize(_)
\* the number of tuples of itertools.product(*lists); 1 for no list at all
ProductSize(lists) ==
    IF lists = <<>> THEN 1 ELSE Len(Head(lists)) * ProductSize(Tail(lists))

\* the same with the first list varying fastest
ProductIndices_FirstFastest(lists, t) ==
    [j \in DOMAIN lists |->
        ((t \div ProductSize(SubSeq(lists, 1, j - 1))) % Len(lists[j])) + 1]

\* the positions in each list of the t-th tuple (t from 0) of
\* itertools.product(*lists): the last list varies fastest
ProductIndices(lists, t) ==
    [j \in DOMAIN lists |->
        ((t \div ProductSize(SubSeq(lists, j + 1, Len(lists)))) % Len(lists[j])) + 1]

ProductTuple(lists, t) ==
    LET idx == ProductIndices(lists, t)
    IN  [j \in DOMAIN lists |-> lists[j][idx[j]]]

\* condition_variations of a column_combo, tabular: the lists appended, the
\* columns they belong to, and whether building them raised
RECURSIVE TabVariationsOf(_, _)
TabVariationsOf(column_combo, thresholds) ==
    IF column_combo = <<>> THEN [raised |-> FALSE, cols |-> <<>>, lists |-> <<>>]
    ELSE LET col == Head(column_combo)
             one == tab_condition_variations(col, thresholds[col])
             rest == TabVariationsOf(Tail(column_combo), thresholds)
         IN  IF one.raised THEN [raised |-> TRUE, cols |-> <<>>, lists |-> <<>>]
             ELSE IF ~one.appended THEN rest
             ELSE [raised |-> rest.raised,
                   cols |-> <<col>> \o rest.cols,
                   lists |-> <<one.variations>> \o rest.lists]

\* condition_variations of a column_combo, query backend: one list of
\* (col, sql_cond, threshold_config, col_type) per column, empty or not
RECURSIVE DbVariationsOf(_, _)
DbVariationsOf(column_combo, thresholds) ==
    IF column_combo = <<>> THEN [raised |-> FALSE, cols |-> <<>>, lists |-> <<>>]
    ELSE LET col == Head(column_combo)
             one == generate_sql_condition(col, thresholds[col], ColumnType(col))
             rest == DbVariationsOf(Tail(column_combo), thresholds)
         IN  IF one.raised THEN [raised |-> TRUE, cols |-> <<>>, lists |-> <<>>]
             ELSE [raised |-> rest.raised,
                   cols |-> <<col>> \o rest.cols,
                   lists |-> <<one.conditions>> \o rest.lists]

\* ------------------------------------------------------------- evaluators
\* applied_conditions: every selected column starts blank
BlankConditions(selected) == [c \in Range(selected) |-> Blank]

\* the filter with the comparison turned round
DbBelowMinimum_Reversed(matching_rows, min_rows) == matching_rows > min_rows

\* "if matching_rows < min_matching_rows: continue", in either evaluator
TabBelowMinimum(matching_rows, min_rows) == matching_rows < min_rows
DbBelowMinimum(matching_rows, min_rows) == matching_rows < min_rows

RECURSIVE TabApply(_, _)
\* "for condition_item in condition_set": st is (filtered_df, applied_conditions,
\* valid_filter) so far
TabApply(condition_set, st) ==
    IF condition_set = <<>> THEN st
    ELSE LET item == Head(condition_set)
         IN  IF IsList(item)
             THEN LET col == item.list[1].col
                  IN  TabApply(Tail(condition_set),
                        IF ColumnType(col) = "numeric"
                        THEN [st EXCEPT
                                !.rows = SelectSeq(@, LAMBDA row : ListKeeps(item, row)),
                                !.applied[col] = ListDescription(item)]
                        ELSE st)
             ELSE IF ColumnType(item.col) = "categorical"
                     /\ ~(item.operator = "include" /\ item.data # <<>>)
                     /\ item.data = <<>>
             THEN [st EXCEPT !.valid = FALSE]       \* break
             ELSE TabApply(Tail(condition_set),
                    [st EXCEPT
                        !.rows = SelectSeq(@, LAMBDA row : ItemKeeps(item, row)),
                        !.applied[item.col] =
                            IF ItemDescription(item) = Blank THEN @
                            ELSE ItemDescription(item)])

\* ------------------------------------------------------------- statistics
\* the identifier column and the result columns chosen in the interface
IdColumn == "id"
ResultColumns == <<"A">>

\* the loop of calculate_max_run from position i on
RECURSIVE MaxRunFrom(_, _, _, _, _)
MaxRunFrom(series, i, prev_value, current_run, max_run) ==
    IF i > Len(series) THEN max_run
    ELSE IF series[i] = prev_value
    THEN MaxRunFrom(series, i + 1, series[i], current_run + 1,
                    IF current_run + 1 > max_run THEN current_run + 1 ELSE max_run)
    ELSE MaxRunFrom(series, i + 1, series[i], 1, max_run)

\* calculate_max_run(series)
calculate_max_run(series) ==
    IF series = <<>> THEN 0 ELSE MaxRunFrom(series, 2, series[1], 1, 1)

\* filtered_df[result_col] with its nulls kept
KeepNa(rows, result_col) == [i \in DOMAIN rows |-> rows[i][result_col]]

\* filtered_df[result_col].dropna(): the non-null values in row order
DropNa(rows, result_col) ==
    LET all == [i \in DOMAIN rows |-> rows[i][result_col]]
    IN  SelectSeq(all, LAMBDA v : v # NullOf(result_col))

RECURSIVE SumSquares(_)
SumSquares(s) == IF s = <<>> THEN 0 ELSE Head(s) * Head(s) + SumSquares(Tail(s))

\* the sample variance as an exact quotient (the standard deviation is its
\* root); values are taken exact, round(x, 4) is not followed
Variance(col_data) ==
    LET n == Len(col_data)
    IN  Rat(n * SumSquares(col_data) - SeqSum(col_data) * SeqSum(col_data), n * (n - 1))

MedianOf(col_data) ==
    LET vals == SortedSeq(col_data)
        n == Len(vals)
    IN  IF n % 2 = 1 THEN RatInt(vals[(n + 1) \div 2])
        ELSE Rat(vals[n \div 2] + vals[n \div 2 + 1], 2)

\* the value of statistic name over the non-empty col_data
StatisticOf(name, col_data) ==
    CASE name = "Mean" -> Rat(SeqSum(col_data), Len(col_data))
      [] name = "Sum" -> RatInt(SeqSum(col_data))
      [] name = "Count" -> Len(col_data)
      [] name = "Std_Dev" -> Variance(col_data)
      [] name = "Median" -> MedianOf(col_data)
      [] name = "Min" -> SetMin(Range(col_data))
      [] name = "Max" -> SetMax(Range(col_data))
      [] name = "Max_Run" -> calculate_max_run(col_data)

\* the keys the tabular backend adds for result_col: none when col_data is
\* empty; std() of a single value is NaN and is left out
TabStatisticNames(col_data) ==
    IF col_data = <<>> THEN {}
    ELSE {"Mean", "Max_Run", "Sum", "Count", "Median", "Min", "Max"}
         \cup (IF Len(col_data) >= 2 THEN {"Std_Dev"} ELSE {})

\* the aggregates of the query that are not NULL: COUNT is 0 over no value,
\* STDDEV is NULL over fewer than two values; there is no max-run aggregate
DbStatisticNames(col_data) ==
    {"Count"}
    \cup (IF col_data # <<>> THEN {"Mean", "Sum", "Median", "Min", "Max"} ELSE {})
    \cup (IF Len(col_data) >= 2 THEN {"Std_Dev"} ELSE {})

\* the statistics of a result row: stats[result_col][name], for the names
\* present (the spelling of the keys, "A_Mean" or "A Mean", is not followed)
TabStatistics(rows) ==
    [result_col \in Range(ResultColumns) |->
        LET col_data == DropNa(rows, result_col)
        IN  [name \in TabStatisticNames(col_data) |-> StatisticOf(name, col_data)]]
DbStatistics(rows) ==
    [result_col \in Range(ResultColumns) |->
        LET col_data == DropNa(rows, result_col)
        IN  [name \in DbStatisticNames(col_data) |->
                IF name = "Count" THEN Len(col_data) ELSE StatisticOf(name, col_data)]]

\* ------------------------------------------------------------ identifiers
\* result_row['IDs']: the identifiers listed and the number announced as
\* "... (k more)", 0 when there is no such suffix
NoIds == [present |-> FALSE, ids |-> <<>>, more |-> 0]
IdsOf(rows) == [i \in DOMAIN rows |-> rows[i][IdColumn]]

\* ids = filtered_df[id_column].astype(str).tolist(), cut to the first
\* SampleLimit
TabIdentifiers(rows) ==
    IF Len(rows) > SampleLimit
    THEN [present |-> TRUE, ids |-> SubSeq(IdsOf(rows), 1, SampleLimit),
          more |-> Len(rows) - SampleLimit]
    ELSE [present |-> TRUE, ids |-> IdsOf(rows), more |-> 0]

\* SELECT id ... LIMIT 20 over the rows in the order the table is scanned
DbIdentifiers(scanned_rows) ==
    IF scanned_rows = <<>> THEN NoIds       \* id_df.empty: no 'IDs' key
    ELSE
    LET limited == SubSeq(IdsOf(scanned_rows), 1,
                          IF Len(scanned_rows) < SampleLimit THEN Len(scanned_rows)
                          ELSE SampleLimit)
    IN  [present |-> TRUE, ids |-> limited,
         more |-> IF Len(scanned_rows) > SampleLimit
                  THEN Len(scanned_rows) - SampleLimit ELSE 0]

\* the identifier query sent whatever the aggregate query gave
DbQueriesIssued_Always(emits) == <<"agg", "id">>

\* the queries of one condition_set: the aggregate query, and the identifier
\* query once the count has passed min_matching_rows
DbQueriesIssued(emits) == IF emits THEN <<"agg", "id">> ELSE <<"agg">>

\* one pass of the body of "for condition_set in product(...)" of
\* analyze_data_combinations: the row appended to results, if any
TabEvaluation(df, selected, condition_set, min_rows) ==
    LET st == TabApply(condition_set,
                       [rows |-> df, applied |-> BlankConditions(selected), valid |-> TRUE])
        matching_rows == Len(st.rows)
        emits == st.valid /\ st.rows # <<>> /\ ~TabBelowMinimum(matching_rows, min_rows)
    IN  [count |-> matching_rows,
         emits |-> emits,
         row |-> [desc |-> st.applied, Matching_Rows |-> matching_rows],
         stats |-> TabStatistics(st.rows),
         ids |-> TabIdentifiers(st.rows)]

\* the same for analyze_data_combinations_db: COUNT(*) over the rows the
\* WHERE clause keeps
DbEvaluation(df, selected, condition_set, min_rows) ==
    LET where_clauses == condition_set
        applied == [c \in Range(selected) |->
            IF \E i \in DOMAIN condition_set : condition_set[i].column = c
            THEN LET i == CHOOSE i \in DOMAIN condition_set : condition_set[i].column = c
                 IN  generate_condition_description(c, condition_set[i], <<>>, ColumnType(c))
            ELSE Blank]
        kept == SelectSeq(df, LAMBDA row : WhereHolds(where_clauses, row))
        matching_rows == Len(kept)
    IN  [count |-> matching_rows,
         emits |-> ~DbBelowMinimum(matching_rows, min_rows),
         row |-> [desc |-> applied, Matching_Rows |-> matching_rows],
         stats |-> DbStatistics(kept),
         ids |-> DbIdentifiers(kept)]

\* a failed query taken as one that succeeded
DbQueryOutcome_Ignored(ev, query_failed) == ev

\* fetch_dataframe_from_db returns None when the query fails (and an
\* exception inside the try is caught): the body is left by "continue" with
\* nothing appended
DbQueryOutcome(ev, query_failed) ==
    IF query_failed THEN [ev EXCEPT !.count = 0, !.emits = FALSE] ELSE ev

\* ------------------------------------------------- the calls as functions
\* the rows one column_combo adds to results, from its condition_variations
TabRowsOf(d, selected, lists, min_rows) ==
    LET evs == [t \in 1..ProductSize(lists) |->
                    TabEvaluation(d, selected, ProductTuple(lists, t - 1), min_rows)]
        kept == SelectSeq(evs, LAMBDA ev : ev.emits)
    IN  [k \in DOMAIN kept |-> kept[k].row]
DbRowsOf(d, selected, lists, min_rows) ==
    LET evs == [t \in 1..ProductSize(lists) |->
                    DbEvaluation(d, selected, ProductTuple(lists, t - 1), min_rows)]
        kept == SelectSeq(evs, LAMBDA ev : ev.emits)
    IN  [k \in DOMAIN kept |-> kept[k].row]

RECURSIVE TabRunFrom(_, _, _, _, _)
TabRunFrom(column_combos, d, selected, thr, min_rows) ==
    IF column_combos = <<>> THEN [raised |-> FALSE, results |-> <<>>]
    ELSE LET v == TabVariationsOf(Head(column_combos), thr)
             rest == TabRunFrom(Tail(column_combos), d, selected, thr, min_rows)
         IN  IF v.raised \/ rest.raised THEN [raised |-> TRUE, results |-> <<>>]
             ELSE [raised |-> FALSE,
                   results |-> TabRowsOf(d, selected, v.lists, min_rows) \o rest.results]

RECURSIVE DbRunFrom(_, _, _, _, _)
DbRunFrom(column_combos, d, selected, thr, min_rows) ==
    IF column_combos = <<>> THEN [raised |-> FALSE, results |-> <<>>]
    ELSE LET v == DbVariationsOf(Head(column_combos), thr)
             rest == DbRunFrom(Tail(column_combos), d, selected, thr, min_rows)
         IN  IF v.raised \/ rest.raised THEN [raised |-> TRUE, results |-> <<>>]
             ELSE [raised |-> FALSE,
                   results |-> DbRowsOf(d, selected, v.lists, min_rows) \o rest.results]

\* analyze_data_combinations(df, selected_columns, thresholds, ..., min_matching_rows)
analyze_data_combinations(d, selected, thr, min_rows) ==
    TabRunFrom(ColumnCombos(selected), d, selected, thr, min_rows)
\* analyze_data_combinations_db(table_name, selected_columns, thresholds, ...)
analyze_data_combinations_db(d, selected, thr, min_rows) ==
    DbRunFrom(ColumnCombos(selected), d, selected, thr, min_rows)


\* ---------------------------------------------- history (history_manager.py)
NoDataset == 0      \* df.attrs.get('dataset_id') is None
PreviewRows == 100  \* results.head(100)


\* A config dict is the sequence of its (key, value) pairs in insertion order.
\* json.dumps(config, sort_keys=True) puts the pairs in key order and writes
\* each value as text; SHA-256 is taken as injective on that text.
KeyOrder == <<"column_types", "id_column", "min_matching_rows", "result_columns",
              "selected_columns", "thresholds">>
HasKey(config, key) == \E i \in DOMAIN config : config[i][1] = key
ValueOf(config, key) == config[CHOOSE i \in DOMAIN config : config[i][1] = key][2]
json_dumps_sorted(config) ==
    LET keys == SelectSeq(KeyOrder, LAMBDA k : HasKey(config, k))
    IN  [i \in DOMAIN keys |-> <<keys[i], ToString(ValueOf(config, keys[i]))>>]
generate_config_hash(config) == json_dumps_sorted(config)

\* analysis_config as the handler builds it before the cache lookup
AnalysisConfig(selected, thr, min_rows) ==
    << <<"selected_columns", selected>>, <<"thresholds", thr>>,
       <<"id_column", IdColumn>>, <<"result_columns", ResultColumns>>,
       <<"min_matching_rows", min_rows>> >>

\* column_types as the handler derives it for the selected columns
ColumnTypes(selected) == [c \in Range(selected) |-> ColumnType(c)]

\* analysis_config['column_types'] = column_types, before save_analysis
ConfigToSave(selected, thr, min_rows) ==
    Append(AnalysisConfig(selected, thr, min_rows),
           <<"column_types", ColumnTypes(selected)>>)

\* the row save_analysis inserts into analysis_history
save_analysis(dataset, config, status, result_preview, result_row_count) ==
    [dataset_id |-> dataset,
     config_json |-> config,
     config_hash |-> generate_config_hash(config),
     status |-> status,
     result_preview |-> result_preview,
     result_row_count |-> result_row_count]

\* SELECT .. WHERE dataset_id = %s AND config_hash = %s AND status = 'completed'
\* ORDER BY created_at DESC LIMIT 1: the positions of the matching rows
CachedAt(history, dataset, config_hash) ==
    {i \in DOMAIN history :
        /\ history[i].dataset_id = dataset
        /\ history[i].config_hash = config_hash
        /\ history[i].status = "completed"}
find_cached_analysis(history, dataset, config_hash) ==
    LET at == CachedAt(history, dataset, config_hash)
    IN  IF at = {} THEN <<>> ELSE <<history[SetMax(at)]>>

\* --------------------------------------------- estimate and budget (app.py)
MAX_TOTAL_COMBINATIONS == 10000

\* col_conditions of the estimate shown before the run (2 by default)
col_conditions(threshold_config) ==
    LET type == threshold_config.type
    IN  CASE type = "multiple_ranges" -> Len(threshold_config.ranges)
          [] type \in {"multiple_before", "multiple_after", "multiple_on"} ->
                Len(threshold_config.dates)
          [] type \in {"multiple_last_n_days", "multiple_first_n_days"} ->
                Len(threshold_config.configs)
          [] type = "multiple_conditions_or" -> Len(threshold_config.conditions) + 1
          [] type = "range" -> Len(threshold_config.ranges)
          [] type \in {"multiple_greater_than", "multiple_less_than"} ->
                Len(threshold_config.values)
          [] OTHER -> 2

RECURSIVE ProductOfKnown_Raw(_)
RECURSIVE ProductOfKnown(_)
RECURSIVE estimated_combinations(_, _)
estimated_combinations(selected, thr) ==
    IF selected = <<>> THEN 1
    ELSE col_conditions(thr[Head(selected)]) * estimated_combinations(Tail(selected), thr)

\* the product of the counts as they are, without the floor of two
ProductOfKnown_Raw(ranges) ==
    IF ranges = <<>> THEN 1 ELSE Head(ranges) * ProductOfKnown_Raw(Tail(ranges))

\* "for count in current_column_ranges.values(): current_product *= max(count, 2)"
ProductOfKnown(ranges) ==
    IF ranges = <<>> THEN 1
    ELSE (IF Head(ranges) > 2 THEN Head(ranges) ELSE 2) * ProductOfKnown(Tail(ranges))

\* "other_columns = max(0, selected_columns_count - 1)" and three conditions
\* assumed for each of them
ProductAssumed(count) ==
    LET other_columns == IF count - 1 > 0 THEN count - 1 ELSE 0
    IN  IF other_columns > 0 THEN 3 ^ other_columns ELSE 1

\* the ceiling of 1000 without the floor of 2
ClampRanges_NoFloor(current_product) ==
    LET q == MAX_TOTAL_COMBINATIONS \div current_product
    IN  IF q < 1000 THEN q ELSE 1000

\* "max_ranges = int(MAX_TOTAL_COMBINATIONS / current_product)" and
\* "return max(2, min(max_ranges, 1000))"
ClampRanges(current_product) ==
    LET q == MAX_TOTAL_COMBINATIONS \div current_product
        m == IF q < 1000 THEN q ELSE 1000
    IN  IF m > 2 THEN m ELSE 2

\* calculate_max_ranges: ranges are the values of current_column_ranges in
\* order, <<>> for None and for the empty dict (both are false in "if")
calculate_max_ranges(count, ranges) ==
    IF count = 0 THEN 100
    ELSE LET current_product ==
                IF ranges # <<>> THEN ProductOfKnown(ranges) ELSE ProductAssumed(count)
         IN  IF current_product > 0 THEN ClampRanges(current_product) ELSE 100

\* ------------------------------------------------------------------ state
NotCalled == 0      \* max_ranges before any call (a call returns 2 or more)

\* ------------------------------------------------------- the database layer
MaxThreads == 2
Threads == 1..MaxThreads        \* the script threads, one per session
NoPool == 0                     \* _connection_pool = None
NoConnection == NoPool          \* conn = None; a connection is named by its pool

\* a thread about to run the script: it calls initialize_connection_pool()
\* and later enters "with get_db_connection()"
NotStarted ==
    [pc |-> "script", after |-> "with", conn |-> NoConnection, error |-> "none",
     body |-> "none", commits |-> 0, rollbacks |-> 0, returns |-> 0, raised |-> "none"]

VARIABLES
    df,                     \* the snapshot: a sequence of rows [id, A, B, D]
    selected_columns,       \* the columns selected for analysis, in order
    thresholds,             \* thresholds[col]: the column's configuration
    min_matching_rows,
    dataset_id,             \* df.attrs['dataset_id'], NoDataset when absent
    pc,                     \* "configured" | "running" | "done" | "error"
    backend,                \* the evaluator running (or that ran last)
    combo_i,                \* position of column_combo in ColumnCombos, 0 before
    condition_variations,   \* [cols, lists] of the current column_combo
    tuple_i,                \* tuples of the current product already taken
    results,                \* results[b]: the result rows of backend b's last run
    evaluated,              \* evaluated[b]: the condition sets b's last run took
    analysis_history,       \* the analysis_history table
    cached_result,          \* what the last click's cache lookup returned
    clicks,                 \* clicks on "Analyze Data Combinations" so far
    called,                 \* the backends that have completed a run
    failing,                \* the aggregate queries (by ordinal in the run) that fail
    failing_id,             \* the condition sets whose identifier query fails
    scan_order,             \* the order in which the table gives its rows to a
                            \*   query without ORDER BY: positions of df
    selected_columns_count, \* the arguments of the last calculate_max_ranges call
    current_column_ranges,  \*   (the counts of the dict, in order; <<>> for None or {})
    max_ranges,             \* what that call returned, NotCalled before
    connection_pool,        \* _connection_pool of utils/db.py: NoPool or a pool
    constructed,            \* the connection pools constructed so far
    thread                  \* thread[t]: where script thread t is in utils/db.py

inputs == <<df, selected_columns, thresholds, min_matching_rows, dataset_id, failing,
            failing_id, scan_order>>
budget == <<selected_columns_count, current_column_ranges, max_ranges>>
database == <<connection_pool, constructed, thread>>
loop == <<backend, combo_i, condition_variations, tuple_i>>
vars == <<inputs, budget, database, pc, loop, results, evaluated, analysis_history, cached_result,
          clicks, called>>

Backends == {"tabular", "db"}
Idle == pc \in {"configured", "done", "error"}
NoVariations == [cols |-> <<>>, lists |-> <<>>]

\* the product of the current column_combo is used up (or none is current)
Exhausted == combo_i = 0 \/ tuple_i >= ProductSize(condition_variations.lists)

StartRun(b) ==
    /\ pc' = "running"
    /\ backend' = b
    /\ combo_i' = 0
    /\ condition_variations' = NoVariations
    /\ tuple_i' = 0
    /\ results' = [results EXCEPT ![b] = <<>>]
    /\ evaluated' = [evaluated EXCEPT ![b] = <<>>]

\* a direct call of analyze_data_combinations(df, ...)
CallTabular ==
    /\ Idle
    /\ "tabular" \notin called
    /\ StartRun("tabular")
    /\ UNCHANGED <<inputs, budget, database, analysis_history, cached_result, clicks, called>>

\* the "Analyze Data Combinations" button: the cache lookup, then either the
\* cached preview or a fresh run of analyze_data_combinations_db
ClickAnalyze ==
    /\ Idle
    /\ selected_columns # <<>>
    /\ ResultColumns # <<>>
    /\ clicks' = clicks + 1
    /\ LET analysis_config ==
               AnalysisConfig(selected_columns, thresholds, min_matching_rows)
           found == IF dataset_id # NoDataset
                    THEN find_cached_analysis(analysis_history, dataset_id,
                                              generate_config_hash(analysis_config))
                    ELSE <<>>
       IN  /\ cached_result' = found
           /\ IF found # <<>> /\ found[1].result_preview # <<>>
              THEN /\ pc' = "done"
                   /\ UNCHANGED <<loop, results, evaluated>>
              ELSE StartRun("db")
    /\ UNCHANGED <<inputs, budget, database, analysis_history, called>>

\* the head of "for column_combo in combinations(...)": the next column_combo
\* and its condition_variations; an exception there ends the call
NextColumnCombo(b, variations) ==
    /\ pc = "running"
    /\ backend = b
    /\ Exhausted
    /\ combo_i < Len(ColumnCombos(selected_columns))
    /\ IF variations.raised
       THEN /\ pc' = "error"
            /\ results' = [results EXCEPT ![b] = <<>>]
            /\ UNCHANGED loop
       ELSE /\ combo_i' = combo_i + 1
            /\ condition_variations' = [cols |-> variations.cols, lists |-> variations.lists]
            /\ tuple_i' = 0
            /\ UNCHANGED <<pc, backend, results>>
    /\ UNCHANGED <<inputs, budget, database, evaluated, analysis_history, cached_result, clicks, called>>

TabNextColumnCombo ==
    NextColumnCombo("tabular",
        IF combo_i < Len(ColumnCombos(selected_columns))
        THEN TabVariationsOf(ColumnCombos(selected_columns)[combo_i + 1], thresholds)
        ELSE [raised |-> FALSE, cols |-> <<>>, lists |-> <<>>])

DbNextColumnCombo ==
    NextColumnCombo("db",
        IF combo_i < Len(ColumnCombos(selected_columns))
        THEN DbVariationsOf(ColumnCombos(selected_columns)[combo_i + 1], thresholds)
        ELSE [raised |-> FALSE, cols |-> <<>>, lists |-> <<>>])

\* the k-th aggregate query of the run fails in fetch_dataframe_from_db
QueryFails(k) == k \in failing
\* the identifier query of the k-th condition set fails there
IdQueryFails(k) == k \in failing_id
\* the table as a query without ORDER BY goes through it
Scanned == [k \in DOMAIN df |-> df[scan_order[k]]]

NoEvaluation == [count |-> 0, emits |-> FALSE, row |-> <<>>, stats |-> <<>>, ids |-> NoIds]

\* one pass of "for condition_set in product(*condition_variations)"
Evaluate(b, ev) ==
    /\ pc = "running"
    /\ backend = b
    /\ ~Exhausted
    /\ tuple_i' = tuple_i + 1
    /\ results' = [results EXCEPT ![b] = IF ev.emits THEN Append(@, ev.row) ELSE @]
    /\ evaluated' = [evaluated EXCEPT ![b] = Append(@,
            [combo |-> ColumnCombos(selected_columns)[combo_i],
             cols |-> condition_variations.cols,
             idx |-> ProductIndices(condition_variations.lists, tuple_i),
             count |-> ev.count,
             emitted |-> ev.emits,
             failed |-> b = "db" /\ QueryFails(Len(evaluated[b]) + 1),
             stats |-> ev.stats,
             ids |-> ev.ids,
             queries |-> IF b = "db" THEN DbQueriesIssued(ev.emits) ELSE <<>>])]
    /\ UNCHANGED <<inputs, budget, database, pc, backend, combo_i, condition_variations,
                   analysis_history, cached_result, clicks, called>>

TabEvaluate ==
    Evaluate("tabular",
        IF Exhausted THEN NoEvaluation
        ELSE TabEvaluation(df, selected_columns,
                           ProductTuple(condition_variations.lists, tuple_i),
                           min_matching_rows))

DbEvaluate ==
    Evaluate("db",
        IF Exhausted THEN NoEvaluation
        ELSE LET condition_set == ProductTuple(condition_variations.lists, tuple_i)
                 k == Len(evaluated["db"]) + 1
                 agg == DbQueryOutcome(
                            DbEvaluation(df, selected_columns, condition_set,
                                         min_matching_rows),
                            QueryFails(k))
                 id_df == DbEvaluation(Scanned, selected_columns, condition_set,
                                       min_matching_rows)
             IN  [agg EXCEPT !.ids = IF IdQueryFails(k) THEN NoIds ELSE id_df.ids])

\* return pd.DataFrame(results)
TabReturn ==
    /\ pc = "running"
    /\ backend = "tabular"
    /\ Exhausted
    /\ combo_i = Len(ColumnCombos(selected_columns))
    /\ pc' = "done"
    /\ called' = called \cup {"tabular"}
    /\ UNCHANGED <<inputs, budget, database, loop, results, evaluated, analysis_history, cached_result,
                   clicks>>

\* the same, back in the handler: the run is saved to the history with
\* column_types added to the config and the first rows as the preview
DbReturn ==
    /\ pc = "running"
    /\ backend = "db"
    /\ Exhausted
    /\ combo_i = Len(ColumnCombos(selected_columns))
    /\ pc' = "done"
    /\ called' = called \cup {"db"}
    /\ analysis_history' =
        IF dataset_id # NoDataset
        THEN Append(analysis_history,
                save_analysis(dataset_id,
                    ConfigToSave(selected_columns, thresholds, min_matching_rows),
                    "completed",
                    SubSeq(results["db"], 1,
                           IF Len(results["db"]) < PreviewRows
                           THEN Len(results["db"]) ELSE PreviewRows),
                    Len(results["db"])))
        ELSE analysis_history
    /\ UNCHANGED <<inputs, budget, database, loop, results, evaluated, cached_result, clicks>>

\* ----------------------------------------------------------------- inputs
\* the values a column takes in the snapshots drawn; a column that is not
\* selected holds one fixed value (it is never read)
LastTick == (MaxDay + 1) * TicksPerDay - 1
ColumnDomain(col) ==
    CASE col = "A" -> 0..MaxVal \cup {Null}
      [] col = "B" -> Cats
      [] col = "D" -> 0..LastTick
ColumnEnds(col) ==
    CASE col = "A" -> {0, MaxVal}
      [] col = "B" -> Cats
      [] col = "D" -> {0, LastTick}
Unused(col) == CASE col = "A" -> 0 [] col = "B" -> NoCat [] col = "D" -> 0

\* the snapshots of 1..MaxRows rows whose selected columns range over dom
Snapshots(selected, dom) ==
    LET cell(c) == IF c \in Range(selected) THEN dom[c] ELSE {Unused(c)}
        Cells == [A : cell("A"), B : cell("B"), D : cell("D")]
    IN  UNION {
            {[i \in 1..n |-> [id |-> i, A |-> rows[i].A, B |-> rows[i].B, D |-> rows[i].D]]
                : rows \in [1..n -> Cells]}
            : n \in 1..MaxRows}

Conditions == {Condition(Operators[o], v) : o \in DOMAIN Operators, v \in 1..(MaxVal - 1)}
Days == 0..MaxDay

\* what the configuration step can store for a column of the snapshot
NumericConfigs(d, col) ==
    {MeanConfig(d, col)}
    \cup {CustomConfig(v) : v \in SetMin(ColValues(d, col))..SetMax(ColValues(d, col))}
    \cup {RangeConfig(d, col, n) : n \in 2..MaxDiv}
    \cup {OrConfig(<<c>>) : c \in Conditions}
    \cup {OrConfig(<<c1, c2>>) : c1 \in Conditions, c2 \in Conditions}
CategoricalConfigs(d, col) ==
    {SpecificValuesConfig(sel) :
        sel \in {<<>>} \cup {<<v>> : v \in ColValues(d, col)}
                \cup {<<p[1], p[2]>> :
                        p \in {q \in ColValues(d, col) \X ColValues(d, col) : q[1] # q[2]}}}
    \cup {AllValuesConfig(d, col)}
DateConfigs(d, col) ==
    LET min_date == SetMin(ColValues(d, col))
        max_date == SetMax(ColValues(d, col))
        days == DateOf(min_date)..DateOf(max_date)
        n_days == 1..(DateOf(max_date - min_date))
    IN  {SingleRangeConfig(p[1], p[2]) : p \in {q \in days \X days : q[1] <= q[2]}}
        \cup {MultipleRangesConfig(<<DateRange(a, a), DateRange(DateOf(min_date), a)>>)
                : a \in days}
        \cup {MultipleDatesConfig(k, <<a>>)
                : k \in {"multiple_before", "multiple_after", "multiple_on"}, a \in days}
        \cup {LastNDaysConfig(d, col, <<n>>) : n \in n_days}
        \cup {FirstNDaysConfig(d, col, <<n>>) : n \in n_days}
\* the kinds only a caller of the evaluators can pass
CallerConfigs(col) ==
    IF ColumnType(col) = "numeric"
    THEN {MultipleConfig(k, <<RatInt(v)>>)
            : k \in {"multiple_greater_than", "multiple_less_than"}, v \in 1..(MaxVal - 1)}
         \cup {UnknownConfig}
    ELSE {UnknownConfig}

Configs(d, col) ==
    CallerConfigs(col) \cup
    CASE ColumnType(col) = "numeric" -> NumericConfigs(d, col)
      [] ColumnType(col) = "categorical" -> CategoricalConfigs(d, col)
      [] ColumnType(col) = "date" -> DateConfigs(d, col)

\* a few configurations per column, for the runs over several columns
FewConfigs(d, col) ==
    CASE ColumnType(col) = "numeric" ->
            {RangeConfig(d, col, 2), OrConfig(<<Condition("<=", 1), Condition(">", 1)>>)}
      [] ColumnType(col) = "categorical" ->
            {SpecificValuesConfig(<<>>), AllValuesConfig(d, col)}
      [] ColumnType(col) = "date" ->
            {MultipleDatesConfig("multiple_on", <<0, MaxDay>>), UnknownConfig}

Usable(d, selected) == \A c \in Range(selected) : ColValues(d, c) # {}

InitRun ==
    /\ pc = "configured"
    /\ backend = "db"
    /\ combo_i = 0
    /\ condition_variations = NoVariations
    /\ tuple_i = 0
    /\ results = [b \in Backends |-> <<>>]
    /\ evaluated = [b \in Backends |-> <<>>]
    /\ analysis_history = <<>>
    /\ cached_result = <<>>
    /\ clicks = 0
    /\ called = {}
    /\ selected_columns_count = 0
    /\ current_column_ranges = <<>>
    /\ max_ranges = NotCalled
    /\ connection_pool = NoPool
    /\ constructed = 0
    /\ thread = [t \in Threads |-> NotStarted]

\* one selected column: every configuration over every small snapshot
InitOne ==
    /\ selected_columns \in {<<Columns[i]>> : i \in DOMAIN Columns}
    /\ df \in {d \in Snapshots(selected_columns, [c \in Range(Columns) |-> ColumnDomain(c)]) : Usable(d, selected_columns)}
    /\ thresholds \in [Range(selected_columns) -> Configs(df, selected_columns[1])]

\* several selected columns: a few configurations each, the end values of
\* each column
InitMany ==
    /\ selected_columns \in {<<"A", "B">>, <<"B", "D">>, <<"D", "A">>, <<"A", "B", "D">>}
    /\ df \in Snapshots(selected_columns, [c \in Range(Columns) |-> ColumnEnds(c)])
    /\ thresholds \in {t \in [Range(selected_columns) ->
                                UNION {FewConfigs(df, c) : c \in Range(selected_columns)}]
                        : \A c \in Range(selected_columns) : t[c] \in FewConfigs(df, c)}

Init ==
    /\ InitOne \/ InitMany
    /\ min_matching_rows \in 0..MaxMin
    /\ dataset_id = NoDataset
    /\ failing = {}
    /\ failing_id = {}
    /\ scan_order = RowOrder(df)
    /\ InitRun

Next ==
    \/ CallTabular
    \/ (clicks = 0 /\ ClickAnalyze)
    \/ TabNextColumnCombo
    \/ DbNextColumnCombo
    \/ TabEvaluate
    \/ DbEvaluate
    \/ TabReturn
    \/ DbReturn

Spec == Init /\ [][Next]_vars

\* =================================================================== claims
\* what the claims speak of: the condition sets a backend took, the rows it
\* produced, and the predicate a variant stands for

\* backend b's call raised out of the enumeration
Errored(b) == pc = "error" /\ backend = b
\* backend b's call has returned and its results are at hand
Finished(b) == b \in called /\ ~(pc = "running" /\ backend = b)
EmittedOf(b) == SelectSeq(evaluated[b], LAMBDA e : e.emitted)

\* the kinds of threshold configuration of each column type
RecognisedKinds(column_type) ==
    CASE column_type = "numeric" ->
            {"mean", "median", "custom", "range", "multiple_greater_than",
             "multiple_less_than", "multiple_conditions_or"}
      [] column_type = "categorical" -> {"categorical"}
      [] column_type = "date" ->
            {"single_range", "multiple_ranges", "multiple_before", "multiple_after",
             "multiple_on", "multiple_last_n_days", "multiple_first_n_days"}
Recognised(col, threshold_config) ==
    threshold_config.type \in RecognisedKinds(ColumnType(col))
AllRecognised == \A c \in Range(selected_columns) : Recognised(c, thresholds[c])

\* the number of variants of a configuration
NumVariants(threshold_config) ==
    LET kind == threshold_config.type
    IN  CASE kind \in {"mean", "median", "custom", "single_range"} ->
                IF kind = "single_range" THEN 1 ELSE 2
          [] kind = "range" -> Len(threshold_config.ranges)
          [] kind \in {"multiple_greater_than", "multiple_less_than"} ->
                Len(threshold_config.values)
          [] kind = "multiple_conditions_or" -> Len(threshold_config.conditions) + 1
          [] kind = "categorical" -> Len(threshold_config.value_groups)
          [] kind = "multiple_ranges" -> Len(threshold_config.ranges)
          [] kind \in {"multiple_before", "multiple_after", "multiple_on"} ->
                Len(threshold_config.dates)
          [] kind \in {"multiple_last_n_days", "multiple_first_n_days"} ->
                Len(threshold_config.configs)
          [] OTHER -> 0

\* row satisfies the k-th variant of the configuration of col
VariantHolds(col, threshold_config, k, row) ==
    LET kind == threshold_config.type
        v == row[col]
    IN  CASE kind \in {"mean", "median", "custom"} ->
                Compare(v, IF k = 1 THEN ">=" ELSE "<", threshold_config.value)
          [] kind = "range" ->
                /\ Compare(v, ">=", threshold_config.ranges[k][1])
                /\ Compare(v, IF k = Len(threshold_config.ranges) THEN "<=" ELSE "<",
                           threshold_config.ranges[k][2])
          [] kind = "multiple_greater_than" -> Compare(v, ">", threshold_config.values[k])
          [] kind = "multiple_less_than" -> Compare(v, "<", threshold_config.values[k])
          [] kind = "multiple_conditions_or" ->
                LET conds == threshold_config.conditions
                    one(i) == Compare(v, conds[i].operator, conds[i].value)
                IN  IF k <= Len(conds) THEN one(k) ELSE \E i \in DOMAIN conds : one(i)
          [] kind = "categorical" -> v \in Range(threshold_config.value_groups[k])
          [] kind = "single_range" ->
                /\ v # Null
                /\ threshold_config.start_date <= DateOf(v)
                /\ DateOf(v) <= threshold_config.end_date
          [] kind = "multiple_ranges" ->
                /\ v # Null
                /\ threshold_config.ranges[k].start_date <= DateOf(v)
                /\ DateOf(v) <= threshold_config.ranges[k].end_date
          [] kind = "multiple_before" -> v # Null /\ DateOf(v) < threshold_config.dates[k]
          [] kind = "multiple_after" -> v # Null /\ DateOf(v) > threshold_config.dates[k]
          [] kind = "multiple_on" -> v # Null /\ DateOf(v) = threshold_config.dates[k]
          [] kind = "multiple_last_n_days" ->
                v # Null /\ v >= threshold_config.configs[k].cutoff_date
          [] kind = "multiple_first_n_days" ->
                v # Null /\ v <= threshold_config.configs[k].cutoff_date
          [] OTHER -> FALSE

\* the rows of the snapshot that satisfy every predicate of condition set e
SatisfyingRows(e) ==
    SelectSeq(df, LAMBDA row :
        \A j \in DOMAIN e.cols :
            VariantHolds(e.cols[j], thresholds[e.cols[j]], e.idx[j], row))

\* ---------------------------------------------------------------------- C1
SameCombination(e1, e2) ==
    e1.combo = e2.combo /\ e1.cols = e2.cols /\ e1.idx = e2.idx

\* C1: for one snapshot and one Combination (the same columns, the same
\* variant of each) the tabular backend and the query backend report the same
\* matching-row count.
C1_CrossBackendCount ==
    \A i \in DOMAIN evaluated["tabular"] : \A j \in DOMAIN evaluated["db"] :
        SameCombination(evaluated["tabular"][i], evaluated["db"][j])
            => evaluated["tabular"][i].count = evaluated["db"][j].count

\* ---------------------------------------------------------------------- C4
\* C4: in both backends every ResultRow has Matching_Rows >= min_matching_rows,
\* Matching_Rows is the number of snapshot rows that satisfy every predicate of
\* the row's Combination, and a Combination below the threshold has no row.
C4_MatchingRowsExact ==
    \A b \in Backends :
        ~Errored(b) =>
            /\ Len(results[b]) = Len(EmittedOf(b))
            /\ \A k \in DOMAIN results[b] :
                /\ results[b][k].Matching_Rows >= min_matching_rows
                /\ k <= Len(EmittedOf(b)) =>
                    results[b][k].Matching_Rows = Len(SatisfyingRows(EmittedOf(b)[k]))
            /\ \A i \in DOMAIN evaluated[b] :
                evaluated[b][i].count < min_matching_rows => ~evaluated[b][i].emitted

\* ---------------------------------------------------------------------- C5
\* C5: every enumerated Combination whose matching-row count is at least
\* min_matching_rows has its ResultRow, one each, for every threshold from 0
\* up: with threshold 0 a Combination that matches no row has one too.
C5_MinFilterComplete ==
    \A b \in Backends :
        ~Errored(b) =>
            /\ \A i \in DOMAIN evaluated[b] :
                evaluated[b][i].count >= min_matching_rows => evaluated[b][i].emitted
            /\ Len(results[b]) = Len(EmittedOf(b))

\* ---------------------------------------------------------------------- C6
RECURSIVE IsSubsequence(_, _)
\* s is t with some elements left out
IsSubsequence(s, t) ==
    IF s = <<>> THEN TRUE
    ELSE IF t = <<>> THEN FALSE
    ELSE IF Head(s) = Head(t) THEN IsSubsequence(Tail(s), Tail(t))
    ELSE IsSubsequence(s, Tail(t))

\* runs over one or two columns, each with a configuration of its type
FilterConfigs(d, col) ==
    CASE ColumnType(col) = "numeric" ->
            {MeanConfig(d, col), RangeConfig(d, col, 2),
             OrConfig(<<Condition("<=", 1), Condition(">", 1)>>)}
      [] ColumnType(col) = "categorical" ->
            {SpecificValuesConfig(<<>>), AllValuesConfig(d, col)}
      [] ColumnType(col) = "date" ->
            {MultipleDatesConfig("multiple_on", <<0, MaxDay>>),
             LastNDaysConfig(d, col, <<1>>), UnknownConfig}
InitFilter ==
    /\ selected_columns \in {<<"A">>, <<"B">>, <<"D">>, <<"A", "B">>}
    /\ df \in Snapshots(selected_columns, [c \in Range(Columns) |-> ColumnEnds(c)])
    /\ thresholds \in {t \in [Range(selected_columns) ->
                                UNION {FilterConfigs(df, c) : c \in Range(selected_columns)}]
                        : \A c \in Range(selected_columns) : t[c] \in FilterConfigs(df, c)}
    /\ min_matching_rows \in 0..MaxMin
    /\ dataset_id = NoDataset
    /\ failing = {}
    /\ failing_id = {}
    /\ scan_order = RowOrder(df)
    /\ InitRun

SpecFilter == InitFilter /\ [][Next]_vars

RunOf(b, min_rows) ==
    IF b = "tabular"
    THEN analyze_data_combinations(df, selected_columns, thresholds, min_rows)
    ELSE analyze_data_combinations_db(df, selected_columns, thresholds, min_rows)

\* C6: over the same inputs a run with the larger min_matching_rows produces
\* no more ResultRows than the run with the smaller one, and its rows are rows
\* of that run; the run made is the run these compare.
C6_FilterMonotone ==
    /\ \A b \in Backends :
        (pc = "done" /\ backend = b /\ b \in called) =>
            results[b] = RunOf(b, min_matching_rows).results
    /\ pc = "configured" =>
        \A b \in Backends :
            LET rows == [m \in 0..(MaxMin + 1) |-> RunOf(b, m).results]
            IN  \A m1 \in 0..(MaxMin + 1) : \A m2 \in m1..(MaxMin + 1) :
                    /\ Len(rows[m2]) <= Len(rows[m1])
                    /\ IsSubsequence(rows[m2], rows[m1])

\* a finished run in which the threshold dropped a Combination and kept another
C6_Witness ==
    \E b \in Backends :
        /\ pc = "done" /\ backend = b /\ b \in called
        /\ results[b] # <<>>
        /\ \E i \in DOMAIN evaluated[b] :
            ~evaluated[b][i].emitted /\ evaluated[b][i].count > 0
        /\ Len(RunOf(b, min_matching_rows - 1).results) > Len(results[b])

\* ---------------------------------------------------------------------- C7
\* the tuples of variant positions of the columns of C
VariantTuples(C) ==
    LET most == SetMax({NumVariants(thresholds[c]) : c \in C})
    IN  {f \in [C -> 1..most] : \A c \in C : f[c] <= NumVariants(thresholds[c])}
ExpectedCombinations ==
    LET counts == [i \in DOMAIN selected_columns |->
                        1 + NumVariants(thresholds[selected_columns[i]])]
        prod[i \in 0..Len(counts)] == IF i = 0 THEN 1 ELSE counts[i] * prod[i - 1]
    IN  prod[Len(counts)] - 1

\* C7: with recognised configurations of n_1..n_k variants, each backend
\* evaluates exactly one Combination for each non-empty subset of the selected
\* columns and each tuple of that subset's variants: (1+n_1)...(1+n_k) - 1 in
\* all, none left out, none twice.
C7_EnumeratorComplete ==
    \A b \in Backends :
        (Finished(b) /\ AllRecognised) =>
            /\ Len(evaluated[b]) = ExpectedCombinations
            /\ \A C \in (SUBSET Range(selected_columns)) \ {{}} :
                \A f \in VariantTuples(C) :
                    Cardinality({i \in DOMAIN evaluated[b] :
                        /\ Len(evaluated[b][i].cols) = Cardinality(C)
                        /\ Range(evaluated[b][i].cols) = C
                        /\ \A j \in DOMAIN evaluated[b][i].cols :
                            evaluated[b][i].idx[j] = f[evaluated[b][i].cols[j]]}) = 1

\* ---------------------------------------------------------------------- C8
\* C8: every evaluated Combination conditions a non-empty subset of the
\* selected columns; in its ResultRow some selected column's description is
\* non-blank, and a column outside the subset is blank; this holds too when a
\* categorical column has no value group.
C8_NonEmptySubset ==
    \A b \in Backends :
        ~Errored(b) =>
            /\ \A i \in DOMAIN evaluated[b] :
                /\ evaluated[b][i].cols # <<>>
                /\ Range(evaluated[b][i].cols) \subseteq Range(selected_columns)
            /\ Len(results[b]) = Len(EmittedOf(b))
            /\ \A k \in DOMAIN results[b] :
                /\ DOMAIN results[b][k].desc = Range(selected_columns)
                /\ \E c \in Range(selected_columns) : results[b][k].desc[c] # Blank
                /\ k <= Len(EmittedOf(b)) =>
                    \A c \in Range(selected_columns) \ Range(EmittedOf(b)[k].cols) :
                        results[b][k].desc[c] = Blank

\* ---------------------------------------------------------------------- C9
\* C9: a configuration of a kind not recognised for its column fails the whole
\* run before any Combination is evaluated: the kind never stands for an empty
\* variant list, and the column is never quietly left out.
C9_UnknownKindFatal ==
    ~AllRecognised =>
        \A b \in Backends :
            /\ evaluated[b] = <<>>
            /\ ~Finished(b)
            /\ results[b] = <<>>

\* ---------------------------------------------------------------------- C2
\* runs over one numeric column split into ranges: the snapshot holds the
\* minimum, the maximum and one value between them
RangeRow(i, v) == [id |-> i, A |-> v, B |-> NoCat, D |-> 0]
InitRange ==
    /\ selected_columns = <<"A">>
    /\ \E min_val \in 0..RangeTop : \E max_val \in min_val..RangeTop :
        \E v \in min_val..max_val :
            df = <<RangeRow(1, min_val), RangeRow(2, v), RangeRow(3, max_val)>>
    /\ \E n \in 2..MaxDiv : thresholds = [c \in {"A"} |-> RangeConfig(df, c, n)]
    /\ min_matching_rows \in 0..MaxMin
    /\ dataset_id = NoDataset
    /\ failing = {}
    /\ failing_id = {}
    /\ scan_order = RowOrder(df)
    /\ InitRun

SpecRange == InitRange /\ [][Next]_vars

\* v lies on the end of division k
OnEnd(v, k) == Compare(v, "=", thresholds["A"].ranges[k][2])
TabDivisions == tab_condition_variations("A", thresholds["A"]).variations
DbDivisions == generate_sql_condition("A", thresholds["A"], "numeric").conditions
TabInDivision(v, k) == ItemKeeps(TabDivisions[k], RangeRow(0, v))
DbInDivision(v, k) == SqlHolds(DbDivisions[k], RangeRow(0, v))
CountsOf(b) == [i \in DOMAIN evaluated[b] |-> evaluated[b][i].count]

\* C2: with a "range" configuration of N divisions built over the column's
\* [min, max], every value of [min, max] satisfies the predicate of exactly
\* one division, in both backends alike; a value on the end of a division other
\* than the last satisfies a later division, the next one when min < max; with
\* min = max the one value satisfies exactly one division; and a finished run
\* has counted every row of the snapshot in exactly one division.
C2_RangePartition ==
    LET n == Len(thresholds["A"].ranges)
        min_val == SetMin(ColValues(df, "A"))
        max_val == SetMax(ColValues(df, "A"))
    IN  /\ Len(TabDivisions) = n
        /\ Len(DbDivisions) = n
        /\ \A v \in min_val..max_val :
            /\ Cardinality({k \in 1..n : TabInDivision(v, k)}) = 1
            /\ Cardinality({k \in 1..n : DbInDivision(v, k)}) = 1
            /\ \A k \in 1..n : TabInDivision(v, k) <=> DbInDivision(v, k)
            /\ \A k \in 1..(n - 1) :
                OnEnd(v, k) =>
                    \A j \in 1..n :
                        TabInDivision(v, j) =>
                            /\ j > k
                            /\ min_val < max_val => j = k + 1
        /\ \A b \in Backends :
            (pc = "done" /\ backend = b /\ b \in called) =>
                /\ Len(evaluated[b]) = n
                /\ SeqSum(CountsOf(b)) = Len(df)

\* both backends have run over a snapshot with a row on an inner boundary,
\* and both counted that row in the division above the boundary
C2_Witness ==
    /\ called = Backends
    /\ pc = "done"
    /\ SetMin(ColValues(df, "A")) < SetMax(ColValues(df, "A"))
    /\ \E k \in 1..(Len(thresholds["A"].ranges) - 1) :
        /\ OnEnd(df[2].A, k)
        /\ TabInDivision(df[2].A, k + 1)
        /\ \A b \in Backends :
            /\ Len(evaluated[b]) = Len(thresholds["A"].ranges)
            /\ evaluated[b][k + 1].count >= 1

\* ---------------------------------------------------------------------- C3
\* runs of the button over a stored dataset: the handler looks the
\* configuration up, runs the analysis and saves it, and is clicked again
InitCache ==
    /\ selected_columns \in {<<"A">>, <<"A", "B">>}
    /\ df \in Snapshots(selected_columns, [c \in Range(Columns) |-> ColumnEnds(c)])
    /\ thresholds \in {t \in [Range(selected_columns) ->
                                UNION {FewConfigs(df, c) : c \in Range(selected_columns)}]
                        : \A c \in Range(selected_columns) : t[c] \in FewConfigs(df, c)}
    /\ min_matching_rows \in 1..MaxMin
    /\ dataset_id \in 1..Datasets
    /\ failing = {}
    /\ failing_id = {}
    /\ scan_order = RowOrder(df)
    /\ InitRun

NextCache ==
    \/ (clicks < MaxClicks /\ ClickAnalyze)
    \/ DbNextColumnCombo
    \/ DbEvaluate
    \/ DbReturn

SpecCache == InitCache /\ [][NextCache]_vars

\* the history holds a completed run of this dataset under the key the
\* handler would look up now
StoredRun(i) ==
    LET K == AnalysisConfig(selected_columns, thresholds, min_matching_rows)
        saved == analysis_history[i]
    IN  /\ saved.dataset_id = dataset_id
        /\ saved.status = "completed"
        /\ \A j \in DOMAIN K :
            /\ HasKey(saved.config_json, K[j][1])
            /\ ValueOf(saved.config_json, K[j][1]) = K[j][2]

\* C3: once a run is saved as completed for a dataset, a later request with
\* the same dataset and the same selected columns, thresholds, id column,
\* result columns and min_matching_rows finds it: the hash of the lookup is
\* the hash stored by the save.
C3_CacheHitAfterSave ==
    [][(clicks' = clicks + 1 /\ \E i \in DOMAIN analysis_history : StoredRun(i)) =>
          /\ cached_result' # <<>>
          /\ \E i \in DOMAIN analysis_history :
                /\ StoredRun(i)
                /\ analysis_history[i].config_hash =
                    generate_config_hash(
                        AnalysisConfig(selected_columns, thresholds, min_matching_rows))
      ]_vars

\* --------------------------------------------------------------------- C10
\* runs of the button over configurations small and large
InitBudget ==
    /\ selected_columns = <<"A", "D">>
    /\ df \in Snapshots(selected_columns, [c \in Range(Columns) |-> ColumnEnds(c)])
    /\ \E n \in {2, BigDivisions} : \E k \in {1, BigDates} :
        thresholds = [c \in {"A", "D"} |->
                        IF c = "A" THEN RangeConfig(df, c, n)
                        ELSE MultipleDatesConfig("multiple_on", [i \in 1..k |-> 0])]
    /\ min_matching_rows \in 1..MaxMin
    /\ dataset_id = NoDataset
    /\ failing = {}
    /\ failing_id = {}
    /\ scan_order = RowOrder(df)
    /\ InitRun

NextBudget ==
    \/ (clicks = 0 /\ ClickAnalyze)
    \/ DbNextColumnCombo
    \/ (Len(evaluated["db"]) < MaxEval /\ DbEvaluate)
    \/ DbReturn

SpecBudget == InitBudget /\ [][NextBudget]_vars

\* C10: when the estimated number of combinations is above
\* MAX_TOTAL_COMBINATIONS the run does not start: after the analysis is
\* requested no Combination is evaluated and no row is produced.
C10_BudgetRefusal ==
    estimated_combinations(selected_columns, thresholds) > MAX_TOTAL_COMBINATIONS =>
        /\ evaluated["db"] = <<>>
        /\ results["db"] = <<>>

\* ------------------------------------------------- the cap of a column
\* a call of calculate_max_ranges
CalculateMaxRanges(count, ranges) ==
    /\ selected_columns_count' = count
    /\ current_column_ranges' = ranges
    /\ max_ranges' = calculate_max_ranges(count, ranges)
    /\ UNCHANGED <<inputs, database, pc, loop, results, evaluated, analysis_history,
                   cached_result, clicks, called>>

KnownCounts == {0, 1, 2, 3, BigCount}

KnownRanges == UNION {[1..n -> KnownCounts] : n \in 0..MaxKnown}

\* the interface calls it with len(selected_columns) alone
CallFromInterface == \E count \in 0..MaxCount : CalculateMaxRanges(count, <<>>)

\* any caller may pass the counts of the columns already configured
CallWithCounts ==
    \E count \in 0..MaxCount : \E ranges \in KnownRanges \ {<<>>} :
        CalculateMaxRanges(count, ranges)

InitCap ==
    /\ selected_columns = <<"A">>
    /\ df = <<>>
    /\ thresholds = [c \in {"A"} |-> MeanConfig(df, c)]
    /\ min_matching_rows = 1
    /\ dataset_id = NoDataset
    /\ failing = {}
    /\ failing_id = {}
    /\ scan_order = RowOrder(df)
    /\ InitRun

NextCap == CallFromInterface \/ CallWithCounts

SpecCap == InitCap /\ [][NextCap]_vars

BudgetCalled == max_ranges # NotCalled

RECURSIVE ClaimedProduct(_)
ClaimedProduct(ranges) ==
    IF ranges = <<>> THEN 1
    ELSE SetMax({Head(ranges), 2}) * ClaimedProduct(Tail(ranges))

ClaimedCap(count, ranges) ==
    IF count = 0 THEN 100
    ELSE LET P == IF ranges = <<>> THEN 3 ^ (count - 1) ELSE ClaimedProduct(ranges)
         IN  SetMax({2, SetMin({MAX_TOTAL_COMBINATIONS \div P, 1000})})

\* C11: calculate_max_ranges returns 100 for 0 selected columns, and
\* otherwise floor(10000 / P) clamped to 2..1000, where P is the product of
\* max(count, 2) over the known counts, or 3^(selected_columns_count - 1)
\* when no counts are given.
C11_BudgetFormula ==
    BudgetCalled =>
        max_ranges = ClaimedCap(selected_columns_count, current_column_ranges)

\* a call with known counts whose quotient lies strictly inside the clamp
C11_Witness ==
    /\ BudgetCalled
    /\ selected_columns_count > 0
    /\ \E i \in 1..Len(current_column_ranges) : current_column_ranges[i] < 2
    /\ max_ranges > 2
    /\ max_ranges < 1000

\* one more variant of another column
Bumped(ranges, i) == [ranges EXCEPT ![i] = @ + 1]

NeverGrows(count, ranges) ==
    /\ calculate_max_ranges(count + 1, ranges) <= calculate_max_ranges(count, ranges)
    /\ \A i \in 1..Len(ranges) :
         calculate_max_ranges(count, Bumped(ranges, i)) <=
            calculate_max_ranges(count, ranges)

\* C12 as stated: the cap is never below 2 and never increases when the
\* selected-column count increases, from 0 upward, or when the variant count
\* of another column increases.
C12_MonotoneFromZero ==
    BudgetCalled =>
        /\ max_ranges >= 2
        /\ NeverGrows(selected_columns_count, current_column_ranges)

\* C12: the cap is never below 2, and it never increases when the
\* selected-column count increases from 1 upward or when the variant count
\* of another column increases.
C12_MonotoneFromOne ==
    BudgetCalled =>
        /\ max_ranges >= 2
        /\ selected_columns_count >= 1 =>
              NeverGrows(selected_columns_count, current_column_ranges)

\* a call whose cap goes down with one more selected column, and one whose
\* cap goes down with one more variant of another column
C12_Witness ==
    /\ BudgetCalled
    /\ selected_columns_count >= 1
    /\ \/ calculate_max_ranges(selected_columns_count + 1, current_column_ranges)
            < max_ranges
       \/ \E i \in 1..Len(current_column_ranges) :
            calculate_max_ranges(selected_columns_count,
                                 Bumped(current_column_ranges, i)) < max_ranges

\* cap^k, stopped just above the budget
RECURSIVE CappedPower(_, _)
CappedPower(cap, k) ==
    IF k = 0 THEN 1
    ELSE SetMin({cap * CappedPower(cap, k - 1), MAX_TOTAL_COMBINATIONS + 1})

InitFault ==
    /\ selected_columns \in {<<"A">>, <<"A", "B">>}
    /\ df \in Snapshots(selected_columns, [c \in Range(Columns) |-> ColumnEnds(c)])
    /\ thresholds \in {t \in [Range(selected_columns) ->
                                {MeanConfig(df, "A"), CustomConfig(1), AllValuesConfig(df, "B")}]
                        : \A c \in Range(selected_columns) :
                            IF c = "A" THEN t[c] \in {MeanConfig(df, "A"), CustomConfig(1)}
                            ELSE t[c] = AllValuesConfig(df, "B")}
    /\ min_matching_rows \in 1..MaxMin
    /\ dataset_id = NoDataset
    /\ failing \in SUBSET (1..MaxFail)
    /\ failing_id = {}
    /\ scan_order = RowOrder(df)
    /\ InitRun

NextFault ==
    \/ (clicks = 0 /\ ClickAnalyze)
    \/ DbNextColumnCombo
    \/ DbEvaluate
    \/ DbReturn

SpecFault == InitFault /\ [][NextFault]_vars

\* what each enumerated Combination gives when its query succeeds, in the
\* order of the enumeration
RECURSIVE DbEvaluationsFrom(_)
DbEvaluationsFrom(column_combos) ==
    IF column_combos = <<>> THEN <<>>
    ELSE LET lists == DbVariationsOf(Head(column_combos), thresholds).lists
         IN  [t \in 1..ProductSize(lists) |->
                [cols |-> Head(column_combos),
                 ev |-> DbEvaluation(df, selected_columns, ProductTuple(lists, t - 1),
                                     min_matching_rows)]]
             \o DbEvaluationsFrom(Tail(column_combos))
Enumerated == DbEvaluationsFrom(ColumnCombos(selected_columns))

\* the elements of seq at the positions from i on that keep holds of
RECURSIVE KeptFrom(_, _, _)
KeptFrom(seq, keep, i) ==
    IF i > Len(seq) THEN <<>>
    ELSE (IF keep[i] THEN <<seq[i]>> ELSE <<>>) \o KeptFrom(seq, keep, i + 1)

DbReturned == results["db"]

\* the table a finished run returns when the queries of F fail
ReturnedWith(F) ==
    LET all == Enumerated
    IN  KeptFrom([i \in DOMAIN all |-> all[i].ev.row],
                 [i \in DOMAIN all |-> i \notin F /\ all[i].ev.emits], 1)
Skipped(F) == Cardinality(F \cap DOMAIN Enumerated)

\* C15: the number of Combinations skipped because their evaluation failed is
\* available with the result of the run: whatever failures lead to the
\* returned result, they are as many as the failures of this run.
C15_SkipAccounting ==
    (pc = "done" /\ "db" \in called) =>
        \A F \in SUBSET (1..MaxFail) :
            ReturnedWith(F) = DbReturned => Skipped(F) = Skipped(failing)

\* ------------------------------------------------- OR configurations
\* runs over one numeric column with an OR configuration of 1..MaxConds
\* conditions
InitOr ==
    /\ selected_columns = <<"A">>
    /\ df \in Snapshots(selected_columns, [c \in Range(Columns) |-> ColumnDomain(c)])
    /\ \E n \in 1..MaxConds : \E conds \in [1..n -> Conditions] :
            thresholds = [c \in {"A"} |-> OrConfig(conds)]
    /\ min_matching_rows = 1
    /\ dataset_id = NoDataset
    /\ failing = {}
    /\ failing_id = {}
    /\ scan_order = RowOrder(df)
    /\ InitRun

SpecOr == InitOr /\ [][Next]_vars

\* a variant of either backend as its operators and values, single or grouped
VariantShape(b, v) ==
    IF b = "tabular"
    THEN IF IsList(v)
         THEN [group |-> TRUE,
               parts |-> [i \in DOMAIN v.list |-> <<v.list[i].operator, v.list[i].data>>]]
         ELSE [group |-> FALSE, parts |-> <<<<v.operator, v.data>>>>]
    ELSE [group |-> v.sql = "or",
          parts |-> [i \in DOMAIN v.parts |-> <<v.parts[i].op, v.parts[i].value>>]]

\* the rows of the snapshot that satisfy at least one of the conditions
MatchingSome(conds) ==
    {r \in DOMAIN df :
        \E i \in DOMAIN conds : Compare(df[r].A, conds[i].operator, conds[i].value)}

\* C16: for an OR configuration of n conditions each backend builds the n
\* individual conditions followed by one OR-group, evaluates each of the n+1
\* variants as its own Combination, and the OR-group matches exactly the rows
\* that match at least one individual condition.
C16_OrVariants ==
    LET conds == thresholds["A"].conditions
        n == Len(conds)
        pairs == [i \in 1..n |-> <<conds[i].operator, conds[i].value>>]
    IN  \A b \in Backends :
        /\ (pc = "running" /\ backend = b /\ condition_variations # NoVariations) =>
            LET vs == condition_variations.lists[1]
            IN  /\ Len(vs) = n + 1
                /\ \A i \in 1..n :
                    VariantShape(b, vs[i]) = [group |-> FALSE, parts |-> <<pairs[i]>>]
                /\ VariantShape(b, vs[n + 1]) = [group |-> TRUE, parts |-> pairs]
        /\ Finished(b) =>
            /\ Len(evaluated[b]) = n + 1
            /\ \A k \in 1..(n + 1) :
                evaluated[b][k].cols = <<"A">> /\ evaluated[b][k].idx = <<k>>
            /\ evaluated[b][n + 1].count = Cardinality(MatchingSome(conds))
            /\ evaluated[b][n + 1].emitted <=> MatchingSome(conds) # {}

\* both backends have finished over two conditions whose OR-group matches
\* more rows than either condition alone
C16_Witness ==
    LET conds == thresholds["A"].conditions
    IN  /\ \A b \in Backends : Finished(b)
        /\ Len(conds) = 2
        /\ \A i \in 1..2 :
            Cardinality(MatchingSome(<<conds[i]>>)) < Cardinality(MatchingSome(conds))
        /\ \A b \in Backends :
            evaluated[b][3].emitted

\* ---------------------------------------------------------------------- C17
\* C17: for a multiple-greater-than (multiple-less-than) configuration of k
\* values both backends generate exactly k variants, the i-th being
\* col > v_i (col < v_i), and evaluate each as its own Combination: no
\* backend raises, and a finished run has taken k Combinations whose i-th
\* counts the rows above (below) v_i.
C17_MultipleValues ==
    (/\ selected_columns = <<"A">>
     /\ thresholds["A"].type \in {"multiple_greater_than", "multiple_less_than"}) =>
        LET values == thresholds["A"].values
            op == IF thresholds["A"].type = "multiple_greater_than" THEN ">" ELSE "<"
        IN  \A b \in Backends :
            /\ ~Errored(b)
            /\ Finished(b) =>
                /\ Len(evaluated[b]) = Len(values)
                /\ \A i \in DOMAIN values :
                    /\ evaluated[b][i].idx = <<i>>
                    /\ evaluated[b][i].count =
                        Cardinality({r \in DOMAIN df : Compare(df[r].A, op, values[i])})

\* ------------------------------------------------- single thresholds
\* runs over one numeric column with a mean, median or custom threshold
InitThreshold ==
    /\ selected_columns = <<"A">>
    /\ df \in {d \in Snapshots(selected_columns, [c \in Range(Columns) |-> ColumnDomain(c)])
                : Usable(d, selected_columns)}
    /\ thresholds \in [{"A"} ->
            {MeanConfig(df, "A"), MedianConfig(df, "A")}
            \cup {CustomConfig(v) :
                    v \in SetMin(ColValues(df, "A"))..SetMax(ColValues(df, "A"))}]
    /\ min_matching_rows = 1
    /\ dataset_id = NoDataset
    /\ failing = {}
    /\ failing_id = {}
    /\ scan_order = RowOrder(df)
    /\ InitRun

SpecThreshold == InitThreshold /\ [][Next]_vars

\* row passes the filter backend b makes of variant v
Keeps(b, v, row) == IF b = "tabular" THEN ItemKeeps(v, row) ELSE SqlHolds(v, row)

\* C18: a mean, median or custom threshold v gives exactly two variants, in
\* both backends: first >= v, then < v. Every row with a non-null value
\* matches exactly one of them and a row with a null value matches neither;
\* the two Combinations of a run count the non-null rows between them.
C18_TwoWaySplit ==
    LET value == thresholds["A"].value
        filled == {r \in DOMAIN df : df[r].A # Null}
    IN  \A b \in Backends :
        /\ (pc = "running" /\ backend = b /\ condition_variations # NoVariations) =>
            LET vs == condition_variations.lists[1]
            IN  /\ Len(vs) = 2
                /\ VariantShape(b, vs[1]) = [group |-> FALSE, parts |-> <<<<">=", value>>>>]
                /\ VariantShape(b, vs[2]) = [group |-> FALSE, parts |-> <<<<"<", value>>>>]
                /\ \A r \in DOMAIN df :
                    IF r \in filled
                    THEN Keeps(b, vs[1], df[r]) # Keeps(b, vs[2], df[r])
                    ELSE ~Keeps(b, vs[1], df[r]) /\ ~Keeps(b, vs[2], df[r])
        /\ Finished(b) =>
            /\ Len(evaluated[b]) = 2
            /\ evaluated[b][1].count =
                    Cardinality({r \in filled : Compare(df[r].A, ">=", value)})
            /\ evaluated[b][2].count =
                    Cardinality({r \in filled : Compare(df[r].A, "<", value)})
            /\ evaluated[b][1].count + evaluated[b][2].count = Cardinality(filled)

\* both backends have finished over a snapshot with a null value and a value
\* equal to the threshold
C18_Witness ==
    LET value == thresholds["A"].value
    IN  /\ \A b \in Backends : Finished(b)
        /\ \E r \in DOMAIN df : df[r].A = Null
        /\ \E r \in DOMAIN df : Compare(df[r].A, "=", value)
        /\ \A b \in Backends : evaluated[b][1].count = 1 /\ evaluated[b][2].count = 0

\* ------------------------------------------------- categorical modes
\* the column B with CountX rows of x and CountY rows of y
ExampleB ==
    [i \in 1..(CountX + CountY) |->
        [id |-> i, A |-> Unused("A"), B |-> IF i <= CountX THEN "x" ELSE "y",
         D |-> Unused("D")]]

\* runs over one categorical column in the modes "Select All Values" and
\* "Select Top N Values"
InitCategorical ==
    /\ selected_columns = <<"B">>
    /\ df \in Snapshots(selected_columns, [c \in Range(Columns) |-> ColumnDomain(c)])
              \cup {ExampleB}
    /\ thresholds \in [{"B"} ->
            {AllValuesConfig(df, "B")}
            \cup {TopNConfig(counts, top_n) :
                    counts \in value_counts(df, "B"),
                    top_n \in 1..Cardinality(ColValues(df, "B"))}]
    /\ min_matching_rows \in 1..MaxMin
    /\ dataset_id = NoDataset
    /\ failing = {}
    /\ failing_id = {}
    /\ scan_order = RowOrder(df)
    /\ InitRun

SpecCategorical == InitCategorical /\ [][Next]_vars

\* groups are one group per value of a set of values, none twice
SinglesOf(groups, values) ==
    /\ \A i \in DOMAIN groups : Len(groups[i]) = 1 /\ groups[i][1] \in values
    /\ \A i, j \in DOMAIN groups : i # j => groups[i] # groups[j]
    /\ Len(groups) = Cardinality(values)

\* values are n distinct values of B, none less frequent than a value left out
TopByFrequency(values, n) ==
    /\ values \subseteq ColValues(df, "B")
    /\ Cardinality(values) = n
    /\ \A v \in values : \A w \in ColValues(df, "B") \ values :
            ValueCount(df, "B", v) >= ValueCount(df, "B", w)

\* the values of the membership variant v of backend b
MembersOf(b, v) == IF b = "tabular" THEN v.data ELSE v.values
IsMembership(b, v) == IF b = "tabular" THEN v.operator = "include" ELSE v.sql = "in"

\* C19: the modes 'all values' and 'top-N' give exactly one single-value
\* membership variant per distinct value (per value of the N most frequent)
\* and no variant combining several values; each backend takes these
\* variants one by one, and the column {x:5, y:3} in 'all values' mode with
\* min_matching_rows = 1 yields exactly 2 ResultRows.
C19_CategoricalModes ==
    LET groups == thresholds["B"].value_groups
    IN  /\ SinglesOf(AllValuesConfig(df, "B").value_groups, ColValues(df, "B"))
        /\ \A counts \in value_counts(df, "B") :
            \A top_n \in 1..Cardinality(ColValues(df, "B")) :
                LET top == TopNConfig(counts, top_n).value_groups
                    values == {top[i][1] : i \in DOMAIN top}
                IN  SinglesOf(top, values) /\ TopByFrequency(values, top_n)
        /\ \A b \in Backends :
            /\ (pc = "running" /\ backend = b /\ condition_variations # NoVariations) =>
                LET vs == condition_variations.lists[1]
                IN  /\ Len(vs) = Len(groups)
                    /\ \A i \in DOMAIN vs :
                        IsMembership(b, vs[i]) /\ MembersOf(b, vs[i]) = groups[i]
            /\ Finished(b) =>
                /\ Len(evaluated[b]) = Len(groups)
                /\ \A i \in DOMAIN groups :
                    evaluated[b][i].count = ValueCount(df, "B", groups[i][1])
                /\ (/\ df = ExampleB
                    /\ thresholds["B"] = AllValuesConfig(df, "B")
                    /\ min_matching_rows = 1) =>
                        /\ Len(results[b]) = 2
                        /\ results[b][1].Matching_Rows = CountX
                        /\ results[b][2].Matching_Rows = CountY

\* both backends have finished over the column {x:5, y:3} in 'all values'
\* mode with min_matching_rows = 1
C19_Witness ==
    /\ \A b \in Backends : Finished(b) /\ Len(results[b]) = 2
    /\ df = ExampleB
    /\ thresholds["B"] = AllValuesConfig(df, "B")
    /\ min_matching_rows = 1

\* ---------------------------------------------------------------------- C20
DateKinds ==
    {"single_range", "multiple_ranges", "multiple_before", "multiple_after",
     "multiple_on", "multiple_last_n_days", "multiple_first_n_days"}

\* C20: the date rules are the same in both backends: 'before' and 'after'
\* are strict on the date part, 'on' is equality of the date part, ranges
\* include both ends, last-N-days keeps exactly the rows whose full timestamp
\* is at or after the cutoff and first-N-days those at or before it. Each
\* Combination over the date column counts the rows these rules keep.
C20_DateBoundaries ==
    (selected_columns = <<"D">> /\ thresholds["D"].type \in DateKinds) =>
        \A b \in Backends :
            Finished(b) =>
                \A i \in DOMAIN evaluated[b] :
                    evaluated[b][i].count =
                        Cardinality({r \in DOMAIN df :
                            VariantHolds("D", thresholds["D"], evaluated[b][i].idx[1], df[r])})

\* ------------------------------------------------- identifier samples
\* a table of SampleLimit + MaxExtra rows, all of value x
ManyRows ==
    [i \in 1..(SampleLimit + MaxExtra) |->
        [id |-> i, A |-> Unused("A"), B |-> "x", D |-> Unused("D")]]

\* orders in which a table may give its rows: every order of a short table,
\* the stored order and its reverse of a long one
ScanOrders(d) ==
    IF Len(d) <= MaxRows
    THEN {o \in [DOMAIN d -> DOMAIN d] : \A i, j \in DOMAIN d : i # j => o[i] # o[j]}
    ELSE {RowOrder(d), [i \in DOMAIN d |-> Len(d) + 1 - i]}

\* runs over one categorical column, each value on its own, with the table
\* scanned in any order and identifier queries that may fail
InitSample ==
    /\ selected_columns = <<"B">>
    /\ df \in Snapshots(selected_columns, [c \in Range(Columns) |-> ColumnDomain(c)])
              \cup {ManyRows}
    /\ thresholds = [c \in {"B"} |-> AllValuesConfig(df, "B")]
    /\ min_matching_rows = 1
    /\ dataset_id = NoDataset
    /\ failing \in SUBSET {1}
    /\ failing_id \in SUBSET {1}
    /\ scan_order \in ScanOrders(df)
    /\ InitRun

SpecSample == InitSample /\ [][Next]_vars

\* the sample the claim describes for n matching rows: the first SampleLimit
\* in the snapshot's row order, and the overflow beyond them
ClaimedSample(rows) ==
    [present |-> TRUE,
     ids |-> [i \in 1..(IF Len(rows) < SampleLimit THEN Len(rows) ELSE SampleLimit) |->
                rows[i][IdColumn]],
     more |-> IF Len(rows) > SampleLimit THEN Len(rows) - SampleLimit ELSE 0]

\* C21: the identifier sample of every ResultRow lists at most 20
\* identifiers, the first matching rows in the snapshot's row order, with
\* an overflow count of matching_rows - 20 exactly when matching_rows > 20,
\* and both backends give the same sample for the same Combination.
C21_IdentifierSample ==
    /\ \A b \in Backends : \A i \in DOMAIN evaluated[b] :
        evaluated[b][i].emitted =>
            /\ Len(evaluated[b][i].ids.ids) <= SampleLimit
            /\ evaluated[b][i].ids = ClaimedSample(SatisfyingRows(evaluated[b][i]))
    /\ \A i \in DOMAIN evaluated["tabular"] : \A j \in DOMAIN evaluated["db"] :
        (/\ SameCombination(evaluated["tabular"][i], evaluated["db"][j])
         /\ evaluated["tabular"][i].emitted
         /\ evaluated["db"][j].emitted)
            => evaluated["tabular"][i].ids = evaluated["db"][j].ids

\* ---------------------------------------------------------------------- C22
\* the identifier samples of the rows of a run of the query backend over the
\* table scanned as scanned_table, no query failing
RECURSIVE DbSamplesFrom(_, _)
DbSamplesFrom(column_combos, scanned_table) ==
    IF column_combos = <<>> THEN <<>>
    ELSE LET lists == DbVariationsOf(Head(column_combos), thresholds).lists
             evs == [t \in 1..ProductSize(lists) |->
                        DbEvaluation(scanned_table, selected_columns,
                                     ProductTuple(lists, t - 1), min_matching_rows)]
             kept == SelectSeq(evs, LAMBDA ev : ev.emits)
         IN  [k \in DOMAIN kept |-> kept[k].ids]
             \o DbSamplesFrom(Tail(column_combos), scanned_table)

\* the pairs of config in another insertion order
Reordered(config) ==
    {[i \in DOMAIN config |-> config[o[i]]] :
        o \in {p \in [DOMAIN config -> DOMAIN config] :
                    \A i, j \in DOMAIN config : i # j => p[i] # p[j]}}

\* C22: two runs over identical inputs produce identical result tables, the
\* identifier samples included: the rows and samples of a finished run of
\* the query backend are those of every other run over the same inputs,
\* however the table is scanned; and generate_config_hash gives the same
\* hash whatever the insertion order of the keys.
C22_Determinism ==
    /\ (pc = "done" /\ "db" \in called /\ failing = {} /\ failing_id = {}) =>
        \A o \in ScanOrders(df) :
            DbSamplesFrom(ColumnCombos(selected_columns), [k \in DOMAIN df |-> df[o[k]]])
                = [i \in DOMAIN EmittedOf("db") |-> EmittedOf("db")[i].ids]
    /\ pc = "configured" =>
        LET config == AnalysisConfig(selected_columns, thresholds, min_matching_rows)
        IN  \A other \in Reordered(config) :
                generate_config_hash(other) = generate_config_hash(config)

\* ------------------------------------------------- enumeration order
\* runs over two or three columns, selected in any order
InitOrder ==
    /\ selected_columns \in {<<"B", "A">>, <<"A", "B", "D">>}
    /\ df \in Snapshots(selected_columns, [c \in Range(Columns) |-> ColumnEnds(c)])
    /\ thresholds \in {t \in [Range(selected_columns) ->
                                UNION {FewConfigs(df, c) : c \in Range(selected_columns)}]
                        : \A c \in Range(selected_columns) : t[c] \in FewConfigs(df, c)}
    /\ min_matching_rows = 1
    /\ dataset_id = NoDataset
    /\ failing = {}
    /\ failing_id = {}
    /\ scan_order = RowOrder(df)
    /\ InitRun

SpecOrder == InitOrder /\ [][Next]_vars

\* s comes before t in lexical order
LexLess(s, t) ==
    \E k \in 1..(IF Len(s) < Len(t) THEN Len(s) ELSE Len(t)) :
        /\ \A j \in 1..(k - 1) : s[j] = t[j]
        /\ s[k] < t[k]
\* the positions in the selection of the columns of a subset
PositionsOf(combo) ==
    [j \in DOMAIN combo |->
        CHOOSE i \in DOMAIN selected_columns : selected_columns[i] = combo[j]]
\* subsets by increasing size, then in lexical order
ComboBefore(c1, c2) ==
    \/ Len(c1) < Len(c2)
    \/ Len(c1) = Len(c2) /\ LexLess(PositionsOf(c1), PositionsOf(c2))
\* condition sets by their subset, then in the order of the Cartesian product
EntryBefore(e1, e2) ==
    \/ ComboBefore(e1.combo, e2.combo)
    \/ e1.combo = e2.combo /\ LexLess(e1.idx, e2.idx)

\* C23: each backend evaluates the Combinations in the canonical order of
\* the enumerator - subsets of the selected columns by increasing size, then
\* in lexical order of the selection, and within a subset in the order of
\* the Cartesian product of the variant lists - and the result table holds
\* the rows of the emitted ones in that same order.
C23_EnumerationOrder ==
    \A b \in Backends :
        /\ \A i \in DOMAIN evaluated[b] :
            /\ evaluated[b][i].combo \in Range(ColumnCombos(selected_columns))
            /\ \A j \in 1..(Len(evaluated[b][i].combo) - 1) :
                PositionsOf(evaluated[b][i].combo)[j] < PositionsOf(evaluated[b][i].combo)[j + 1]
            /\ i > 1 => EntryBefore(evaluated[b][i - 1], evaluated[b][i])
        /\ ~Errored(b) =>
            /\ Len(results[b]) = Len(EmittedOf(b))
            /\ \A k \in DOMAIN results[b] :
                results[b][k].Matching_Rows = EmittedOf(b)[k].count

\* both backends have finished a run over columns selected out of
\* alphabetical order, with a subset of two columns of two variants each,
\* some Combinations with a row and some without
C23_Witness ==
    /\ selected_columns = <<"B", "A">>
    /\ \A b \in Backends :
        /\ Finished(b)
        /\ \E i \in DOMAIN evaluated[b] : evaluated[b][i].idx = <<2, 2>>
        /\ \E i \in DOMAIN evaluated[b] : ~evaluated[b][i].emitted
        /\ Len(results[b]) >= 2

\* ------------------------------------------------- statistics of a row
\* the series of the example: 5, 5, 3, 3, 3, 7
RunExample == <<5, 5, 3, 3, 3, 7>>
ExampleRows ==
    [i \in DOMAIN RunExample |-> [id |-> i, A |-> RunExample[i], B |-> "x", D |-> Unused("D")]]

\* snapshots of one more row than the others, all of one category, the
\* result column holding any value or none
LongSnapshots ==
    {[i \in 1..(MaxRows + 1) |-> [id |-> i, A |-> a[i], B |-> "x", D |-> Unused("D")]]
        : a \in [1..(MaxRows + 1) -> ColumnDomain("A")]}

\* runs over one categorical column, each value on its own, where the result
\* column may be null in any row
InitStats ==
    /\ selected_columns = <<"B">>
    /\ df \in Snapshots(<<"A", "B">>, [c \in Range(Columns) |-> ColumnDomain(c)])
              \cup LongSnapshots \cup {ExampleRows}
    /\ thresholds = [c \in {"B"} |-> AllValuesConfig(df, "B")]
    /\ min_matching_rows = 1
    /\ dataset_id = NoDataset
    /\ failing = {}
    /\ failing_id = {}
    /\ scan_order = RowOrder(df)
    /\ InitRun

SpecStats == InitStats /\ [][Next]_vars

\* the length of the longest stretch of equal neighbours of s
LongestStreak(s) ==
    IF s = <<>> THEN 0
    ELSE SetMax({p[2] - p[1] + 1 : p \in
            {q \in (DOMAIN s) \X (DOMAIN s) :
                q[1] <= q[2] /\ \A k \in q[1]..q[2] : s[k] = s[q[1]]}})

\* the values of the result column in the rows an evaluated condition set
\* keeps, in row order, and those of them that are not null
ResultValues(e, result_col) ==
    [i \in DOMAIN SatisfyingRows(e) |-> SatisfyingRows(e)[i][result_col]]
NonNullValues(e, result_col) ==
    SelectSeq(ResultValues(e, result_col), LAMBDA v : v # Null)

\* C24: calculate_max_run is the length of the longest streak of equal
\* consecutive values - 0 for no value, 3 for 5, 5, 3, 3, 3, 7, between 1 and
\* the length otherwise - and the tabular aggregator takes it over the values
\* of the matching rows in row order with the nulls removed, so that equal
\* values with only nulls between them are one streak.
C24_MaxRun ==
    /\ calculate_max_run(<<>>) = 0
    /\ calculate_max_run(RunExample) = 3
    /\ \A i \in DOMAIN evaluated["tabular"] :
        LET e == evaluated["tabular"][i]
            col_data == NonNullValues(e, "A")
        IN  e.emitted /\ col_data # <<>> =>
                /\ "Max_Run" \in DOMAIN e.stats["A"]
                /\ e.stats["A"]["Max_Run"] = LongestStreak(col_data)
                /\ e.stats["A"]["Max_Run"] >= 1
                /\ e.stats["A"]["Max_Run"] <= Len(col_data)

\* the tabular backend emitted a row whose result column holds two equal
\* values with only a null between them, and counted them as one streak
C24_Witness ==
    \E i \in DOMAIN evaluated["tabular"] :
        LET e == evaluated["tabular"][i]
            all == ResultValues(e, "A")
        IN  /\ e.emitted
            /\ \E k \in 2..(Len(all) - 1) :
                all[k] = Null /\ all[k - 1] # Null /\ all[k - 1] = all[k + 1]
            /\ e.stats["A"]["Max_Run"] = LongestStreak(NonNullValues(e, "A"))
            /\ e.stats["A"]["Max_Run"] >= 2

\* the statistics named for a result column with a value
StatisticSet ==
    {"Mean", "Sum", "Count", "Std_Dev", "Median", "Min", "Max", "Max_Run"}

\* C25: in both backends, every result row carries, for the result column
\* with at least one non-null value among its matching rows, the mean, sum,
\* count, standard deviation, median, minimum, maximum and max-run.
C25_StatisticSet ==
    \A b \in Backends : \A i \in DOMAIN evaluated[b] :
        LET e == evaluated[b][i]
        IN  e.emitted /\ NonNullValues(e, "A") # <<>> =>
                StatisticSet \subseteq DOMAIN e.stats["A"]

\* C26: in both backends, a Combination whose matching rows reach the
\* minimum and hold no non-null value of the result column still gives a
\* result row, and that row carries no statistic of the column.
C26_NoValueNoStatistic ==
    \A b \in Backends : \A i \in DOMAIN evaluated[b] :
        LET e == evaluated[b][i]
        IN  /\ Len(SatisfyingRows(e)) >= min_matching_rows
            /\ NonNullValues(e, "A") = <<>>
            => /\ e.emitted
               /\ DOMAIN e.stats["A"] = {}

\* ------------------------------------------------- queries of a Combination
\* how many of the queries are of a kind
Issued(queries, kind) == Len(SelectSeq(queries, LAMBDA q : q = kind))

\* C27: in the query backend each Combination issues its aggregate query
\* exactly once, first, and its identifier query at most once, and only when
\* the aggregate query returned a count of at least min_matching_rows; a
\* query that failed is not issued again.
C27_QueryOrdering ==
    \A i \in DOMAIN evaluated["db"] :
        LET e == evaluated["db"][i]
        IN  /\ Issued(e.queries, "agg") = 1
            /\ Issued(e.queries, "id") <= 1
            /\ e.queries[1] = "agg"
            /\ Len(e.queries) = Issued(e.queries, "agg") + Issued(e.queries, "id")
            /\ Issued(e.queries, "id") = 1 <=>
                    /\ ~e.failed
                    /\ e.count >= min_matching_rows
                    /\ Len(SatisfyingRows(e)) >= min_matching_rows

\* the query backend has finished a run in which one Combination issued
\* both queries, one had its aggregate query fail and one counted fewer rows
\* than the minimum
C27_Witness ==
    /\ Finished("db")
    /\ \E i \in DOMAIN evaluated["db"] : evaluated["db"][i].queries = <<"agg", "id">>
    /\ \E i \in DOMAIN evaluated["db"] :
        evaluated["db"][i].failed /\ evaluated["db"][i].queries = <<"agg">>
    /\ \E i \in DOMAIN evaluated["db"] :
        /\ ~evaluated["db"][i].failed
        /\ evaluated["db"][i].count < min_matching_rows
        /\ evaluated["db"][i].queries = <<"agg">>

\* ------------------------------------------------- predicates of the tabular backend
\* C28: in the tabular backend every column with a variant in an evaluated
\* condition set has its predicate applied to the rows - the rows counted are
\* those that satisfy every variant - and a non-blank description in the
\* result row, whatever the variant, an individual condition of an OR
\* configuration with >, <, >= or <= included.
C28_PredicateApplied ==
    ~Errored("tabular") =>
        /\ \A i \in DOMAIN evaluated["tabular"] :
            evaluated["tabular"][i].count = Len(SatisfyingRows(evaluated["tabular"][i]))
        /\ Len(results["tabular"]) = Len(EmittedOf("tabular"))
        /\ \A k \in DOMAIN results["tabular"] :
            k <= Len(EmittedOf("tabular")) =>
                \A c \in Range(EmittedOf("tabular")[k].cols) :
                    results["tabular"][k].desc[c] # Blank

\* ------------------------------------------------- connections and the pool
\* app.py at script level: initialize_connection_pool(), a failure is caught
StartScript(t) ==
    /\ thread[t].pc = "script"
    /\ thread' = [thread EXCEPT ![t].pc = "initialize", ![t].after = "with"]
    /\ UNCHANGED <<connection_pool, constructed>>

\* initialize_connection_pool: "if _connection_pool is not None: return"
InitializeCheck(t) ==
    /\ thread[t].pc = "initialize"
    /\ thread' = [thread EXCEPT ![t].pc =
            IF connection_pool # NoPool THEN thread[t].after ELSE "construct"]
    /\ UNCHANGED <<connection_pool, constructed>>

\* _connection_pool = ThreadedConnectionPool(...): the pool is constructed and
\* assigned, or psycopg2.Error is raised - caught by the script, an exception
\* of the with statement otherwise
Construct(t) ==
    /\ thread[t].pc = "construct"
    /\ \E ok \in BOOLEAN :
        IF ok
        THEN /\ constructed' = constructed + 1
             /\ connection_pool' = constructed + 1
             /\ thread' = [thread EXCEPT ![t].pc = thread[t].after]
        ELSE /\ thread' = [thread EXCEPT
                    ![t].pc = IF thread[t].after = "with" THEN "with" ELSE "except",
                    ![t].error = IF thread[t].after = "with" THEN @ ELSE "pool"]
             /\ UNCHANGED <<connection_pool, constructed>>

\* get_db_connection: conn = None, then get_postgres_connection:
\* "if _connection_pool is None: initialize_connection_pool()"
EnterWith(t) ==
    /\ thread[t].pc = "with"
    /\ thread' = [thread EXCEPT
            ![t].pc = IF connection_pool = NoPool THEN "initialize" ELSE "getconn",
            ![t].after = "getconn"]
    /\ UNCHANGED <<connection_pool, constructed>>

\* conn = _connection_pool.getconn(), or psycopg2.Error
GetConn(t) ==
    /\ thread[t].pc = "getconn"
    /\ \E ok \in BOOLEAN :
        thread' = [thread EXCEPT
            ![t].pc = IF ok THEN "body" ELSE "except",
            ![t].conn = IF ok THEN connection_pool ELSE @,
            ![t].error = IF ok THEN @ ELSE "getconn"]
    /\ UNCHANGED <<connection_pool, constructed>>

\* yield conn: the body of the with statement completes or raises
Body(t) ==
    /\ thread[t].pc = "body"
    /\ \E ok \in BOOLEAN :
        thread' = [thread EXCEPT
            ![t].pc = IF ok THEN "commit" ELSE "except",
            ![t].body = IF ok THEN "completed" ELSE "raised",
            ![t].error = IF ok THEN @ ELSE "body"]
    /\ UNCHANGED <<connection_pool, constructed>>

\* conn.commit(), which may raise
Commit(t) ==
    /\ thread[t].pc = "commit"
    /\ \E ok \in BOOLEAN :
        thread' = [thread EXCEPT
            ![t].pc = IF ok THEN "finally" ELSE "except",
            ![t].commits = IF ok THEN @ + 1 ELSE @,
            ![t].error = IF ok THEN @ ELSE "commit"]
    /\ UNCHANGED <<connection_pool, constructed>>

\* except Exception: "if conn: conn.rollback()", then raise; a rollback that
\* raises replaces the exception
Except(t) ==
    /\ thread[t].pc = "except"
    /\ \E ok \in BOOLEAN :
        /\ thread[t].conn = NoConnection => ok
        /\ thread' = [thread EXCEPT
            ![t].pc = "finally",
            ![t].rollbacks = IF ok /\ thread[t].conn # NoConnection THEN @ + 1 ELSE @,
            ![t].raised = IF ok THEN thread[t].error ELSE "rollback"]
    /\ UNCHANGED <<connection_pool, constructed>>

\* finally: "if conn: return_connection(conn)", which puts conn into the
\* pool _connection_pool names now; a pool that did not lend it raises PoolError
Finally(t) ==
    /\ thread[t].pc = "finally"
    /\ thread' = [thread EXCEPT
            ![t].pc = "out",
            ![t].returns =
                IF thread[t].conn # NoConnection /\ connection_pool = thread[t].conn
                THEN @ + 1 ELSE @,
            ![t].raised =
                IF /\ thread[t].conn # NoConnection
                   /\ connection_pool # NoPool
                   /\ connection_pool # thread[t].conn
                THEN "putconn" ELSE @]
    /\ UNCHANGED <<connection_pool, constructed>>

Unrelated ==
    UNCHANGED <<inputs, budget, pc, loop, results, evaluated, analysis_history,
                cached_result, clicks, called>>

InitPool ==
    /\ selected_columns = <<"A">>
    /\ df = <<>>
    /\ thresholds = [c \in {"A"} |-> MeanConfig(df, c)]
    /\ min_matching_rows = 1
    /\ dataset_id = NoDataset
    /\ failing = {}
    /\ failing_id = {}
    /\ scan_order = RowOrder(df)
    /\ InitRun

NextPool ==
    \/ \E t \in Threads : StartScript(t) /\ Unrelated
    \/ \E t \in Threads : InitializeCheck(t) /\ Unrelated
    \/ \E t \in Threads : Construct(t) /\ Unrelated
    \/ \E t \in Threads : EnterWith(t) /\ Unrelated
    \/ \E t \in Threads : GetConn(t) /\ Unrelated
    \/ \E t \in Threads : Body(t) /\ Unrelated
    \/ \E t \in Threads : Commit(t) /\ Unrelated
    \/ \E t \in Threads : Except(t) /\ Unrelated
    \/ \E t \in Threads : Finally(t) /\ Unrelated

SpecPool == InitPool /\ [][NextPool]_vars

\* the thread has left the with statement with a connection obtained
LeftWith(t) == thread[t].pc = "out" /\ thread[t].conn # NoConnection

\* C29: a connection obtained inside get_db_connection is back in its pool
\* exactly once when the with statement is left; it is committed exactly
\* when the body completed without an exception and rolled back otherwise,
\* and then the exception reaches the caller.
C29_ConnectionRelease ==
    \A t \in Threads :
        LeftWith(t) =>
            /\ thread[t].returns = 1
            /\ thread[t].commits = 1 <=> thread[t].body = "completed"
            /\ thread[t].rollbacks = 1 <=> thread[t].body = "raised"
            /\ thread[t].body = "raised" <=> thread[t].raised = "body"

\* C30: while the pool is not closed at most one connection pool is ever
\* constructed, also when threads make their first calls at the same time,
\* and every connection handed out comes from that pool.
C30_SinglePool ==
    /\ constructed <= 1
    /\ \A t \in Threads :
        thread[t].conn # NoConnection => thread[t].conn = 1

====
